---- MODULE Spec2Model ----
(***************************************************************************)
(* A model of cz::PolyChunkVector<T, size_t>                               *)
(* (source/crazygaze/core/PolyChunkVector.h), instantiated as the unit     *)
(* tests do: T = Base, Derived in {Base, Foo}, on an LP64 target.          *)
(*                                                                         *)
(* Chunks live in a heap indexed by their allocation number, so a chunk    *)
(* that was released and a chunk allocated later are different chunks even *)
(* when malloc hands out the same bytes again.  A chunk's memory is the    *)
(* map from the offsets at which something was written to what was written *)
(* there; everything else is indeterminate.  An address is a pair          *)
(* (chunk, byte offset).                                                   *)
(***************************************************************************)
EXTENDS Integers, Sequences, FiniteSets, TLC

VARIABLES
    chunks,         \* heap: allocation number -> Chunk
    m_head,         \* Chunk* (allocation number, NULL = nullptr)
    m_tail,         \* Chunk*
    m_lastHeader,   \* Header* as [c, off]
    m_numElements,  \* std::size_t
    nextChunk,      \* number the next `new Chunk` gets
    freed,          \* allocation numbers of the chunks deleted so far
    destroyed,      \* log of the destructor calls: the `a` of each object, in call order
    faults,         \* failed asserts and undefined reads, by name
    alive,          \* FALSE once ~PolyChunkVector has run
    nextId,         \* the value the next emplaced object is constructed with
    emplaced,       \* the values emplaced since the last clear, in call order
    refs,           \* value -> the reference emplace_back returned for it
    iterated,       \* what the last range-for over the container visited
    lastOp,         \* the call that produced this state
    pre,            \* the container as it was when that call was made
    steps,          \* number of calls made so far
    handed,         \* the regions handed out since the last clear, with their content
    calls,          \* a recorded workload: the calls made since the last clear
    previous        \* the workload the last clear ended, and the chain it had built

vars == <<chunks, m_head, m_tail, m_lastHeader, m_numElements, nextChunk, freed,
          destroyed, faults, alive, nextId, emplaced, refs, iterated, lastOp, pre, steps,
          handed, calls, previous>>

-----------------------------------------------------------------------------
(* Bounds of the exploration *)

\* number of calls made on the container after its construction
MaxSteps == 5

\* number of calls made before a recorded workload is run a second time
MaxWorkload == 3

\* number of calls made on a container that is also executed, moved into and destroyed
MaxCalls == 4

-----------------------------------------------------------------------------
(* The instantiation: PolyChunkVector<Base>, LP64 *)

\* alignof(Base): it holds a vptr and a uint64_t
AlignofT == 8
\* sizeof(SizeType_), SizeType_ = size_t
SizeofSizeType == 8
\* sizeof(Base): vptr, int baseNum (+ padding), uint64_t a
SizeofT == 24
\* sizeof(Foo): Base, int fooNum (+ padding), int64_t dummy
SizeofFoo == 40
\* distance between the addresses malloc returns for two chunks; malloc's
\* results are aligned for any type, so every chunk starts on a multiple of it
MallocSpacing == 65536

NULL == 0
nullptr == [c |-> NULL, off |-> 0]

Max(a, b) == IF a >= b THEN a ELSE b

Min(a, b) == IF a <= b THEN a ELSE b

isMultipleOf(a, b) == a # 0 /\ a % b = 0

roundUpToMultipleOf(a, b) == IF b = 0 THEN a ELSE ((a + b - 1) \div b) * b

\* struct alignas(alignof(T)) Header { SizeType_ stride; }
SizeofHeader == roundUpToMultipleOf(SizeofSizeType, AlignofT)

InitialChunkCapacity == (SizeofHeader + SizeofT) * 1024

\* static_cast<SizeType>(x) of a size_t x with SizeType = size_t
toSizeType(x) == x

\* the numeric value of a pointer into a chunk's memory
Address(p) == p.c * MallocSpacing + p.off

-----------------------------------------------------------------------------
(* Chunk memory *)

\* what a write leaves at an offset: a Header (val = stride), an object
\* (val = its `a`), bytes copied by pushOOB (val = what was copied), or the
\* 0 byte that ends a string
Cell(kind, val, len) == [kind |-> kind, val |-> val, len |-> len]

\* storing `cell` at `off` replaces whatever overlapped those bytes
memWrite(mem, off, cell) ==
    LET keep == {o \in DOMAIN mem : o + mem[o].len <= off \/ off + cell.len <= o}
    IN  [o \in keep \cup {off} |-> IF o = off THEN cell ELSE mem[o]]

\* a caller's buffer of n bytes, and a null-terminated string of len characters
\* (std::string::c_str(), a const char*): what memcpy reads from
Bytes(data, n) == IF n = 0 THEN <<>> ELSE <<Cell("oob", data, n)>>

c_str(data, len) == Bytes(data, len) \o <<Cell("nul", 0, 1)>>

\* memcpy(mem + off, src, n)
RECURSIVE memcpy(_, _, _, _)
memcpy(mem, off, src, n) ==
    IF n = 0 \/ src = <<>>
    THEN mem
    ELSE memcpy(memWrite(mem, off, [Head(src) EXCEPT !.len = Min(@, n)]),
                off + Min(Head(src).len, n), Tail(src), n - Min(Head(src).len, n))

hasHeader(ch, pos) == pos \in DOMAIN ch.mem /\ ch.mem[pos].kind = "hdr"

hasObject(ch, pos) == pos \in DOMAIN ch.mem /\ ch.mem[pos].kind = "obj"

\* explicit Chunk(size_t capacity): malloc'ed memory holds nothing yet
Chunk(capacity) ==
    [cap |-> capacity, usedCap |-> 0, skipFirstHeader |-> FALSE, next |-> NULL,
     mem |-> [o \in {} |-> 0]]

\* new Chunk(capacity): the chunk gets allocation number s.nextChunk
newChunk(s, capacity) ==
    [s EXCEPT !.chunks = [k \in DOMAIN s.chunks \cup {s.nextChunk} |->
                             IF k = s.nextChunk THEN Chunk(capacity) ELSE s.chunks[k]],
              !.nextChunk = @ + 1]

\* the chunks reachable from c through next, in order
RECURSIVE chain(_, _)
chain(chs, c) == IF c = NULL THEN <<>> ELSE <<c>> \o chain(chs, chs[c].next)

Range(seq) == {seq[i] : i \in DOMAIN seq}

\* the container's members, and the allocator and destructor logs, as one record
Self ==
    [chunks |-> chunks, m_head |-> m_head, m_tail |-> m_tail,
     m_lastHeader |-> m_lastHeader, m_numElements |-> m_numElements,
     nextChunk |-> nextChunk, freed |-> freed, destroyed |-> destroyed,
     faults |-> faults]

fault(s, name) == [s EXCEPT !.faults = @ \cup {name}]

\* assert(cond)
assert(s, cond, name) == IF cond THEN s ELSE fault(s, name)

\* what a function that hands out memory returns: the container after the
\* call, and the pointer
Returned(s, ptr) == [s |-> s, ptr |-> ptr]

-----------------------------------------------------------------------------
(* getFreeChunk, getSpace, deleteAllChunks *)

\* mutant: the requested capacity only aligned, with no minimum of one header and one T
chunkCapacityFor_noMinimum(requested) == roundUpToMultipleOf(requested, AlignofT)

\* mutant: the minimum taken, the result not rounded up to alignof(T)
chunkCapacityFor_unaligned(requested) == Max(SizeofHeader + SizeofT, requested)

\* the capacity getFreeChunk really asks for
chunkCapacityFor(requested) ==
    roundUpToMultipleOf(Max(SizeofHeader + SizeofT, requested), AlignofT)

\* "Case for when there is no chunks yet"
firstChunk(s, chunkCapacity) ==
    [newChunk(assert(s, s.m_numElements = 0, "assert getFreeChunk m_numElements == 0"),
              chunkCapacity)
        EXCEPT !.m_head = s.nextChunk, !.m_tail = s.nextChunk]

\* mutant: > instead of >= in the test for a chunk that is big enough
RECURSIVE findFreeChunk_strict(_, _, _, _)
findFreeChunk_strict(chs, t, chunkCapacity, allEmpty) ==
    IF chs[t].next = NULL
    THEN [c |-> t, found |-> FALSE, allEmpty |-> allEmpty]
    ELSE IF chs[chs[t].next].cap > chunkCapacity
    THEN [c |-> chs[t].next, found |-> TRUE,
          allEmpty |-> allEmpty /\ chs[chs[t].next].usedCap = 0]
    ELSE findFreeChunk_strict(chs, chs[t].next, chunkCapacity,
                              allEmpty /\ chs[chs[t].next].usedCap = 0)

\* the walk over the chunks that follow the tail: where it stops, whether the
\* chunk it stops at is big enough, and whether every chunk it stepped on was empty
RECURSIVE findFreeChunk(_, _, _, _)
findFreeChunk(chs, t, chunkCapacity, allEmpty) ==
    IF chs[t].next = NULL
    THEN [c |-> t, found |-> FALSE, allEmpty |-> allEmpty]
    ELSE IF chs[chs[t].next].cap >= chunkCapacity
    THEN [c |-> chs[t].next, found |-> TRUE,
          allEmpty |-> allEmpty /\ chs[chs[t].next].usedCap = 0]
    ELSE findFreeChunk(chs, chs[t].next, chunkCapacity,
                       allEmpty /\ chs[chs[t].next].usedCap = 0)

\* mutant: the new chunk made the tail but not linked behind the last chunk
appendChunk_unlinked(s, last, chunkCapacity) ==
    [newChunk(s, chunkCapacity) EXCEPT !.m_tail = s.nextChunk]

\* mutant: the new chunk given the capacity of the tail it is allocated for
appendChunk_tailCapacity(s, last, chunkCapacity) ==
    [newChunk(s, s.chunks[s.m_tail].cap)
        EXCEPT !.chunks[last].next = s.nextChunk, !.m_tail = s.nextChunk]

\* mutant: the new chunk linked right behind the tail, before the retained
\* chunks that were walked past
appendChunk_afterTail(s, last, chunkCapacity) ==
    [newChunk(s, chunkCapacity)
        EXCEPT !.chunks[s.nextChunk].next = s.chunks[s.m_tail].next,
               !.chunks[s.m_tail].next = s.nextChunk,
               !.m_tail = s.nextChunk]

\* "There was no chunk big enough, so allocate one at the end of the chain"
appendChunk(s, last, chunkCapacity) ==
    [newChunk(s, chunkCapacity)
        EXCEPT !.chunks[last].next = s.nextChunk, !.m_tail = s.nextChunk]

\* the end of the walk w: the chunk found becomes the tail, or a new one is appended
adoptOrAppend(s, w, chunkCapacity) ==
    IF w.found
    THEN [s EXCEPT !.m_tail = w.c]
    ELSE appendChunk(s, w.c, chunkCapacity)

\* getFreeChunk, once the capacity is normalised and m_lastHeader reset
takeFreeChunk(s, chunkCapacity) ==
    IF s.m_tail = NULL
    THEN firstChunk(s, chunkCapacity)
    ELSE adoptOrAppend(
             assert(s, findFreeChunk(s.chunks, s.m_tail, chunkCapacity, TRUE).allEmpty,
                    "assert getFreeChunk m_tail->usedCap == 0"),
             findFreeChunk(s.chunks, s.m_tail, chunkCapacity, TRUE),
             chunkCapacity)

getFreeChunk(s, requested) ==
    takeFreeChunk([s EXCEPT !.m_lastHeader = nullptr], chunkCapacityFor(requested))

\* mutant: the room needed for the header left out of the test
tailIsFull_payloadOnly(tail, totalSize) ==
    (tail.usedCap + totalSize - SizeofHeader) > tail.cap

\* mutant: >= instead of >, a write that fits exactly is sent to another chunk
tailIsFull_whenExact(tail, totalSize) == (tail.usedCap + totalSize) >= tail.cap

\* getSpace's test for "not enough space in the current tail"
tailIsFull(tail, totalSize) == (tail.usedCap + totalSize) > tail.cap

\* mutant: the new chunk sized for the element alone
growCapacity_elementOnly(tail, totalSize) == totalSize

\* the capacity getSpace asks getFreeChunk for when the tail is full
growCapacity(tail, totalSize) == Max(totalSize, tail.cap)

\* mutant: = instead of +=
usedAfter_assigned(usedCap, totalSize) == totalSize

\* m_tail->usedCap += totalSize
usedAfter(usedCap, totalSize) == usedCap + totalSize

\* mutant: the first chunk always of the initial capacity
selectTail_initialOnly(s, totalSize) ==
    IF s.m_tail = NULL
    THEN getFreeChunk(s, InitialChunkCapacity)
    ELSE IF tailIsFull(s.chunks[s.m_tail], totalSize)
    THEN getFreeChunk(s, growCapacity(s.chunks[s.m_tail], totalSize))
    ELSE s

\* getSpace's choice of the chunk to write to
selectTail(s, totalSize) ==
    IF s.m_tail = NULL
    THEN getFreeChunk(s, Max(totalSize, InitialChunkCapacity))
    ELSE IF tailIsFull(s.chunks[s.m_tail], totalSize)
    THEN getFreeChunk(s, growCapacity(s.chunks[s.m_tail], totalSize))
    ELSE s

\* mutant: the header written is not recorded as the last header
writeHeader_lastHeaderStale(s, totalSize) ==
    Returned(
        [s EXCEPT
           !.chunks[s.m_tail].mem =
               memWrite(@, s.chunks[s.m_tail].usedCap,
                        Cell("hdr", toSizeType(totalSize), SizeofHeader)),
           !.chunks[s.m_tail].usedCap = usedAfter(@, totalSize)],
        [c |-> s.m_tail, off |-> s.chunks[s.m_tail].usedCap + SizeofHeader])

\* mutant: the stride counts the payload without the header
writeHeader_payloadStride(s, totalSize) ==
    Returned(
        [s EXCEPT
           !.m_lastHeader = [c |-> s.m_tail, off |-> s.chunks[s.m_tail].usedCap],
           !.chunks[s.m_tail].mem =
               memWrite(@, s.chunks[s.m_tail].usedCap,
                        Cell("hdr", toSizeType(totalSize - SizeofHeader), SizeofHeader)),
           !.chunks[s.m_tail].usedCap = usedAfter(@, totalSize)],
        [c |-> s.m_tail, off |-> s.chunks[s.m_tail].usedCap + SizeofHeader])

\* getSpace's write of the header at the end of the tail's used bytes
writeHeader(s, totalSize) ==
    Returned(
        [s EXCEPT
           !.m_lastHeader = [c |-> s.m_tail, off |-> s.chunks[s.m_tail].usedCap],
           !.chunks[s.m_tail].mem =
               memWrite(@, s.chunks[s.m_tail].usedCap,
                        Cell("hdr", toSizeType(totalSize), SizeofHeader)),
           !.chunks[s.m_tail].usedCap = usedAfter(@, totalSize)],
        [c |-> s.m_tail, off |-> s.chunks[s.m_tail].usedCap + SizeofHeader])

getSpace(s, size) ==
    writeHeader(selectTail(s, SizeofHeader + size), SizeofHeader + size)

\* delete of every chunk in ids
freeChunks(s, ids) ==
    [assert(s, \A c \in ids : s.chunks[c].usedCap = 0, "assert ~Chunk usedCap == 0")
        EXCEPT !.chunks = [k \in DOMAIN s.chunks \ ids |-> s.chunks[k]],
               !.freed = @ \cup ids,
               !.m_head = NULL, !.m_tail = NULL, !.m_lastHeader = nullptr]

deleteAllChunks(s) ==
    freeChunks(assert(s, s.m_numElements = 0, "assert deleteAllChunks m_numElements == 0"),
               Range(chain(s.chunks, s.m_head)))

-----------------------------------------------------------------------------
(* emplace_back, reserveOOB, pushOOB, pushOOBString *)

\* assert(isMultipleOf(size_t(ptr), alignof(T)))
checkAligned(s, ptr, name) == assert(s, isMultipleOf(Address(ptr), AlignofT), name)

\* mutant: m_numElements++ forgotten
construct_uncounted(r, size, a) ==
    Returned(
        [checkAligned(r.s, r.ptr, "assert emplace_back isMultipleOf")
            EXCEPT !.chunks[r.ptr.c].mem = memWrite(@, r.ptr.off, Cell("obj", a, size))],
        r.ptr)

\* new (ptr) Derived(a); m_numElements++
construct(r, size, a) ==
    Returned(
        [checkAligned(r.s, r.ptr, "assert emplace_back isMultipleOf")
            EXCEPT !.chunks[r.ptr.c].mem = memWrite(@, r.ptr.off, Cell("obj", a, size)),
                   !.m_numElements = @ + 1],
        r.ptr)

\* emplace_back<Derived>(a) with sizeof(Derived) = size
emplace_back(s, size, a) == construct(getSpace(s, size), size, a)

\* mutant: the room left in the tail not looked at
fitsAfterLastHeader_always(s, alignedSize) == s.m_lastHeader # nullptr

\* mutant: bytes are put behind the header of an element only, never behind
\* the header that leads a chunk of OOB bytes
fitsAfterLastHeader_elementOnly(s, alignedSize) ==
    /\ s.m_lastHeader # nullptr
    /\ ~(s.chunks[s.m_tail].skipFirstHeader /\ s.m_lastHeader.off = 0)
    /\ (s.chunks[s.m_tail].usedCap + alignedSize) <= s.chunks[s.m_tail].cap

\* reserveOOB's test for appending to the last header
fitsAfterLastHeader(s, alignedSize) ==
    /\ s.m_lastHeader # nullptr
    /\ (s.chunks[s.m_tail].usedCap + alignedSize) <= s.chunks[s.m_tail].cap

\* mutant: the stride of the first header of the tail grown instead of the
\* stride of the last header
appendToLastHeader_firstHeader(s, alignedSize) ==
    Returned(
        checkAligned(
            [s EXCEPT
               !.chunks[s.m_tail].mem[0].val = toSizeType(@ + toSizeType(alignedSize)),
               !.chunks[s.m_tail].usedCap = @ + alignedSize],
            [c |-> s.m_tail, off |-> s.chunks[s.m_tail].usedCap],
            "assert reserveOOB isMultipleOf"),
        [c |-> s.m_tail, off |-> s.chunks[s.m_tail].usedCap])

\* mutant: the stride of the last header left as it was
appendToLastHeader_strideKept(s, alignedSize) ==
    Returned(
        checkAligned(
            [s EXCEPT !.chunks[s.m_tail].usedCap = @ + alignedSize],
            [c |-> s.m_tail, off |-> s.chunks[s.m_tail].usedCap],
            "assert reserveOOB isMultipleOf"),
        [c |-> s.m_tail, off |-> s.chunks[s.m_tail].usedCap])

\* the OOB bytes put behind the last header, whose stride grows over them
appendToLastHeader(s, alignedSize) ==
    Returned(
        checkAligned(
            [s EXCEPT
               !.chunks[s.m_lastHeader.c].mem[s.m_lastHeader.off].val =
                   toSizeType(@ + toSizeType(alignedSize)),
               !.chunks[s.m_tail].usedCap = @ + alignedSize],
            [c |-> s.m_tail, off |-> s.chunks[s.m_tail].usedCap],
            "assert reserveOOB isMultipleOf"),
        [c |-> s.m_tail, off |-> s.chunks[s.m_tail].usedCap])

\* mutant: the flag of the chunk-leading OOB header forgotten
markSkipFirstHeader_forgotten(r) ==
    Returned(checkAligned(r.s, r.ptr, "assert reserveOOB isMultipleOf"), r.ptr)

\* mutant: the header of chunk-leading OOB bytes not kept as the last header
markSkipFirstHeader_lastHeaderCleared(r) ==
    Returned(
        checkAligned([r.s EXCEPT !.chunks[r.s.m_tail].skipFirstHeader = TRUE,
                                 !.m_lastHeader = nullptr],
                     r.ptr, "assert reserveOOB isMultipleOf"),
        r.ptr)

\* m_tail->skipFirstHeader = true, after getSpace returned r
markSkipFirstHeader(r) ==
    Returned(
        checkAligned([r.s EXCEPT !.chunks[r.s.m_tail].skipFirstHeader = TRUE],
                     r.ptr, "assert reserveOOB isMultipleOf"),
        r.ptr)

\* reserveOOB for a size that is not 0, once aligned
reserveAligned(s, alignedSize) ==
    IF fitsAfterLastHeader(s, alignedSize)
    THEN appendToLastHeader(s, alignedSize)
    ELSE markSkipFirstHeader(getSpace(s, alignedSize))

\* mutant: the size taken as it is, not rounded up to alignof(T)
reserveOOB_unaligned(s, size) ==
    IF size = 0
    THEN Returned(s, nullptr)
    ELSE reserveAligned(s, size)

\* mutant: a size of 0 reserved like any other
reserveOOB_zeroReserved(s, size) ==
    reserveAligned(s, roundUpToMultipleOf(size, AlignofT))

reserveOOB(s, size) ==
    IF size = 0
    THEN Returned(s, nullptr)
    ELSE reserveAligned(s, roundUpToMultipleOf(size, AlignofT))

\* if (!ptr) return nullptr; memcpy(ptr, data, size)
copyBytes(r, data, size) ==
    IF r.ptr = nullptr
    THEN r
    ELSE Returned(
             [r.s EXCEPT !.chunks[r.ptr.c].mem =
                             memcpy(@, r.ptr.off, data, size)],
             r.ptr)

\* mutant: the bytes reserved as counted, not rounded up to alignof(T)
pushOOB_rawSize(s, data, size) == copyBytes(reserveOOB_unaligned(s, size), data, size)

pushOOB(s, data, size) == copyBytes(reserveOOB(s, size), data, size)

\* memcpy(ptr, str.data(), str.size())
storeChars(mem, off, data, len) ==
    IF len = 0 THEN mem ELSE memWrite(mem, off, Cell("oob", data, len))

\* the characters copied, then ptr[str.size()] = 0
copyString(r, data, len) ==
    Returned(
        [r.s EXCEPT !.chunks[r.ptr.c].mem =
                        memWrite(storeChars(@, r.ptr.off, data, len),
                                 r.ptr.off + len, Cell("nul", 0, 1))],
        r.ptr)

\* mutant: room for the characters only
pushOOBString_unterminated(s, data, len) ==
    IF len = 0
    THEN Returned(s, nullptr)
    ELSE copyBytes(reserveOOB(s, len), Bytes(data, len), len)

\* pushOOBString(std::string_view str) with str.size() = len
pushOOBString(s, data, len) == copyString(reserveOOB(s, len + 1), data, len)

\* memcpy(ptr, str.c_str(), str.size() + 1)
copyCStr(r, src, n) ==
    Returned([r.s EXCEPT !.chunks[r.ptr.c].mem = memcpy(@, r.ptr.off, src, n)], r.ptr)

\* pushOOBString(const std::string& str) with str.size() = len
pushOOBString_string(s, data, len) ==
    copyCStr(reserveOOB(s, len + 1), c_str(data, len), len + 1)

\* pushOOBString(const char* str) with strlen(str) = len
pushOOBString_cstr(s, data, len) == pushOOB(s, c_str(data, len), len + 1)

-----------------------------------------------------------------------------
(* clear *)

\* mutant: clear forgets the skipped first header
clearStart_noSkip(ch) == 0

\* where clear starts in a chunk: behind the first header when it is skipped
\* (-1: the stride was read from bytes that hold no header)
clearStart(ch) ==
    IF ch.skipFirstHeader
    THEN IF hasHeader(ch, 0) THEN ch.mem[0].val ELSE -1
    ELSE 0

\* obj->~T() on the bytes at obj of chunk c: the `a` of the object is logged,
\* or 0 when the bytes hold no object
destroyAt(s, c, obj) ==
    IF hasObject(s.chunks[c], obj)
    THEN [s EXCEPT !.destroyed = Append(@, s.chunks[c].mem[obj].val)]
    ELSE [fault(s, "clear destroys bytes that hold no object")
             EXCEPT !.destroyed = Append(@, 0)]

\* clear's inner loop over chunk c, from pos
RECURSIVE destroyFrom(_, _, _)
destroyFrom(s, c, pos) ==
    IF pos < 0
    THEN fault(s, "clear reads a stride from bytes that hold no header")
    ELSE IF ~(pos < s.chunks[c].usedCap)
    THEN s
    ELSE IF ~hasHeader(s.chunks[c], pos)
    THEN fault(destroyAt(s, c, pos + SizeofHeader),
               "clear reads a stride from bytes that hold no header")
    ELSE destroyFrom(destroyAt(s, c, pos + SizeofHeader), c,
                     pos + s.chunks[c].mem[pos].val)

\* mutant: c->skipFirstHeader = false forgotten
resetChunk_flagKept(s, c) == [s EXCEPT !.chunks[c].usedCap = 0]

\* c->usedCap = 0; c->skipFirstHeader = false
resetChunk(s, c) ==
    [s EXCEPT !.chunks[c].usedCap = 0, !.chunks[c].skipFirstHeader = FALSE]

\* one turn of clear's outer loop
clearChunk(s, c) == resetChunk(destroyFrom(s, c, clearStart(s.chunks[c])), c)

\* mutant: the chunks emptied from the end of the chain backwards
RECURSIVE clearChunks_backwards(_, _)
clearChunks_backwards(s, c) ==
    IF c = NULL THEN s ELSE clearChunk(clearChunks_backwards(s, s.chunks[c].next), c)

\* mutant: only the first chunk of the chain emptied
clearChunks_headOnly(s, c) == IF c = NULL THEN s ELSE clearChunk(s, c)

\* clear's outer loop, from chunk c to the end of the chain
RECURSIVE clearChunks(_, _)
clearChunks(s, c) ==
    IF c = NULL THEN s ELSE clearChunks(clearChunk(s, c), s.chunks[c].next)

\* mutant: > instead of >=
keepsSingleChunk_strict(s, resetToOneChunk) ==
    /\ s.m_tail # NULL
    /\ s.chunks[s.m_tail].next = NULL
    /\ s.chunks[s.m_tail].cap > resetToOneChunk

\* mutant: the first chunk's capacity alone decides
keepsSingleChunk_anyLength(s, resetToOneChunk) ==
    /\ s.m_tail # NULL
    /\ s.chunks[s.m_tail].cap >= resetToOneChunk

\* "If we only have 1 chunk, and its already >= the requested size"
keepsSingleChunk(s, resetToOneChunk) ==
    /\ s.m_tail # NULL
    /\ s.chunks[s.m_tail].next = NULL
    /\ s.chunks[s.m_tail].cap >= resetToOneChunk

\* mutant: m_tail = m_head forgotten
afterClearLoop_tailKept(s) ==
    [s EXCEPT !.m_lastHeader = nullptr, !.m_numElements = 0]

\* mutant: m_lastHeader = nullptr forgotten
afterClearLoop_lastHeaderKept(s) ==
    [s EXCEPT !.m_tail = s.m_head, !.m_numElements = 0]

\* the bookkeeping clear does once every chunk is emptied
afterClearLoop(s) ==
    [s EXCEPT !.m_tail = s.m_head, !.m_lastHeader = nullptr, !.m_numElements = 0]

\* if (resetToOneChunk) { ... }
resetToSingleChunk(s, resetToOneChunk) ==
    IF resetToOneChunk = 0 THEN s
    ELSE IF keepsSingleChunk(s, resetToOneChunk) THEN s
    ELSE getFreeChunk(deleteAllChunks(s), resetToOneChunk)

clear(s, resetToOneChunk) ==
    resetToSingleChunk(afterClearLoop(clearChunks(s, s.m_head)), resetToOneChunk)

\* mutant: the chunks deleted without the elements being destroyed first
destructor_uncleared(s) == deleteAllChunks(s)

\* ~PolyChunkVector
destructor(s) == deleteAllChunks(clear(s, 0))

-----------------------------------------------------------------------------
(* Iterator: [c, pos] are m_c and m_pos *)

Iterator(c, pos) == [c |-> c, pos |-> pos]

\* an iterator that read its stride from bytes that hold no header
wildIterator == Iterator(-1, 0)

\* mutant: the skipped first header taken for an element
isValidPos_noSkip(ch, pos) == pos < ch.usedCap

\* findValid's test for a position that holds an element
isValidPos(ch, pos) ==
    pos < ch.usedCap /\ (pos > 0 \/ (pos = 0 /\ ~ch.skipFirstHeader))

\* m_pos += header()->stride, done by findValid when m_pos < usedCap
skipHeader(ch, pos) == IF pos < ch.usedCap THEN pos + ch.mem[pos].val ELSE pos

RECURSIVE findValid(_, _)
findValid(chs, it) ==
    IF it.c = NULL \/ it = wildIterator
    THEN it
    ELSE IF isValidPos(chs[it.c], it.pos)
    THEN it
    ELSE IF it.pos < chs[it.c].usedCap /\ ~hasHeader(chs[it.c], it.pos)
    THEN wildIterator
    ELSE IF skipHeader(chs[it.c], it.pos) >= chs[it.c].usedCap
    THEN findValid(chs, Iterator(chs[it.c].next, 0))
    ELSE findValid(chs, Iterator(it.c, skipHeader(chs[it.c], it.pos)))

\* mutant: begin() without the search for the first valid position
begin_unsearched(s) == Iterator(s.m_head, 0)

\* one turn of findValid's while (true): the iterator after it, and whether
\* the turn returned
turned(it, done) == [it |-> it, done |-> done]

findValidTurn(chs, it) ==
    IF it.c = NULL \/ it = wildIterator
    THEN turned(it, TRUE)
    ELSE IF isValidPos(chs[it.c], it.pos)
    THEN turned(it, TRUE)
    ELSE IF it.pos < chs[it.c].usedCap /\ ~hasHeader(chs[it.c], it.pos)
    THEN turned(wildIterator, TRUE)
    ELSE IF skipHeader(chs[it.c], it.pos) >= chs[it.c].usedCap
    THEN turned(Iterator(chs[it.c].next, 0), FALSE)
    ELSE turned(Iterator(it.c, skipHeader(chs[it.c], it.pos)), FALSE)

\* a count with one more step in front, -1 standing for no count
oneMore(count) == IF count < 0 THEN -1 ELSE count + 1

\* the number of turns findValid's loop takes from `it`, the returning one
\* included (-1: it has not returned after `fuel` turns)
RECURSIVE findValidTurns(_, _, _)
findValidTurns(chs, it, fuel) ==
    IF fuel = 0 THEN -1
    ELSE IF findValidTurn(chs, it).done THEN 1
    ELSE oneMore(findValidTurns(chs, findValidTurn(chs, it).it, fuel - 1))

begin(s) == findValid(s.chunks, Iterator(s.m_head, 0))

end == Iterator(NULL, 0)

\* mutant: ++ without the search for the next valid position
increment_unsearched(chs, it) ==
    IF hasHeader(chs[it.c], it.pos)
    THEN Iterator(it.c, it.pos + chs[it.c].mem[it.pos].val)
    ELSE wildIterator

\* operator++
increment(chs, it) ==
    IF hasHeader(chs[it.c], it.pos)
    THEN findValid(chs, Iterator(it.c, it.pos + chs[it.c].mem[it.pos].val))
    ELSE wildIterator

\* operator*, as the `a` of the object referred to (0: the bytes hold no object)
deref(chs, it) ==
    IF hasObject(chs[it.c], it.pos + SizeofHeader)
    THEN chs[it.c].mem[it.pos + SizeofHeader].val
    ELSE 0

\* for (const Base& obj : v): the `a` of every object visited, from `it` on
\* (-1 where the loop runs on from a wild iterator)
RECURSIVE visit(_, _)
visit(chs, it) ==
    IF it = end THEN <<>>
    ELSE IF it = wildIterator THEN <<-1>>
    ELSE <<deref(chs, it)>> \o visit(chs, increment(chs, it))

rangeFor(s) == visit(s.chunks, begin(s))

\* calcCapacity's sums, over the chain from c on
RECURSIVE sumUsedCap(_, _)
sumUsedCap(chs, c) == IF c = NULL THEN 0 ELSE chs[c].usedCap + sumUsedCap(chs, chs[c].next)

RECURSIVE sumCap(_, _)
sumCap(chs, c) == IF c = NULL THEN 0 ELSE chs[c].cap + sumCap(chs, chs[c].next)

\* mutant: the chunks behind the tail left out of the sums
calcCapacity_toTail(s) ==
    IF s.m_tail = NULL
    THEN <<0, 0>>
    ELSE <<sumUsedCap([s.chunks EXCEPT ![s.m_tail].next = NULL], s.m_head),
           sumCap([s.chunks EXCEPT ![s.m_tail].next = NULL], s.m_head)>>

calcCapacity(s) == <<sumUsedCap(s.chunks, s.m_head), sumCap(s.chunks, s.m_head)>>

size(s) == s.m_numElements

-----------------------------------------------------------------------------
(* The calls a program makes on one container *)

\* sizeof(Derived) of the types emplaced
DerivedSizes == {SizeofT, SizeofFoo}

\* the byte counts given to pushOOB
OOBSizes == {0, 5}

\* the lengths of the string_views given to pushOOBString: a multiple of
\* alignof(T), so that the 0 byte behind the characters starts a new unit
StringLengths == {3 * AlignofT}

\* the values given to clear and to the constructor: none, less than one header
\* and one Base, and more than that
ResetSizes == {0, SizeofT, SizeofHeader + SizeofT + AlignofT}

Call(op, arg, ret) == [op |-> op, arg |-> arg, ret |-> ret]

\* capacity and used bytes of every chunk of the chain, in chain order
layout(s) ==
    [i \in DOMAIN chain(s.chunks, s.m_head) |->
        [cap |-> s.chunks[chain(s.chunks, s.m_head)[i]].cap,
         usedCap |-> s.chunks[chain(s.chunks, s.m_head)[i]].usedCap]]

\* what `previous` holds: the call that emptied the container, the calls made
\* on it before that, the chain they had built and the number of chunks
\* allocated when the call returned
Run(by, arg, cs, lay, allocated) ==
    [by |-> by, arg |-> arg, calls |-> cs, layout |-> lay, nextChunk |-> allocated]

\* what lies in the len bytes at ptr
regionContent(chs, ptr, len) ==
    [o \in {o \in DOMAIN chs[ptr.c].mem : ptr.off <= o /\ o < ptr.off + len} |->
        chs[ptr.c].mem[o]]

\* the bytes a call handed out: where they are and what the call left in them
Region(chs, ptr, len) ==
    IF ptr = nullptr
    THEN {}
    ELSE {[ptr |-> ptr, len |-> len, content |-> regionContent(chs, ptr, len)]}

Commit(s) ==
    /\ chunks' = s.chunks
    /\ m_head' = s.m_head
    /\ m_tail' = s.m_tail
    /\ m_lastHeader' = s.m_lastHeader
    /\ m_numElements' = s.m_numElements
    /\ nextChunk' = s.nextChunk
    /\ freed' = s.freed
    /\ destroyed' = s.destroyed
    /\ faults' = s.faults

\* PolyChunkVector() = default
constructed ==
    [chunks |-> [k \in {} |-> 0], m_head |-> NULL, m_tail |-> NULL,
     m_lastHeader |-> nullptr, m_numElements |-> 0,
     nextChunk |-> 1, freed |-> {}, destroyed |-> <<>>, faults |-> {}]

\* CommandVector(chunkCapacity): if (chunkCapacity) m_cmds.clear(chunkCapacity)
CommandVector(chunkCapacity) ==
    IF chunkCapacity # 0 THEN clear(constructed, chunkCapacity) ELSE constructed

Init ==
    \E chunkCapacity \in ResetSizes :
        \E s \in {CommandVector(chunkCapacity)} :
            /\ chunks = s.chunks
            /\ m_head = s.m_head
            /\ m_tail = s.m_tail
            /\ m_lastHeader = s.m_lastHeader
            /\ m_numElements = s.m_numElements
            /\ nextChunk = s.nextChunk
            /\ freed = s.freed
            /\ destroyed = s.destroyed
            /\ faults = s.faults
            /\ alive = TRUE
            /\ nextId = 1
            /\ emplaced = <<>>
            /\ refs = [k \in {} |-> nullptr]
            /\ iterated = <<>>
            /\ lastOp = Call("CommandVector", chunkCapacity, nullptr)
            /\ pre = constructed
            /\ steps = 0
            /\ handed = {}
            /\ calls = <<>>
            /\ previous = Run("CommandVector", chunkCapacity, <<>>, <<>>, s.nextChunk)

\* v.emplace_back<Derived>(nextId)
callEmplaceBack(derivedSize) ==
    /\ \E r \in {emplace_back(Self, derivedSize, nextId)} :
           /\ Commit(r.s)
           /\ refs' = [k \in DOMAIN refs \cup {nextId} |->
                          IF k = nextId THEN r.ptr ELSE refs[k]]
           /\ lastOp' = Call("emplace_back", derivedSize, r.ptr)
           /\ handed' = handed \cup Region(r.s.chunks, r.ptr, derivedSize)
    /\ emplaced' = Append(emplaced, nextId)
    /\ nextId' = nextId + 1
    /\ iterated' = <<>>
    /\ pre' = Self
    /\ steps' = steps + 1
    /\ UNCHANGED alive

\* what every OOB push leaves besides the container: r is what the call
\* returned and n the number of bytes it asked reserveOOB for
Pushed(op, arg, r, n) ==
    /\ Commit(r.s)
    /\ lastOp' = Call(op, arg, r.ptr)
    /\ handed' = handed \cup Region(r.s.chunks, r.ptr, n)
    /\ iterated' = <<>>
    /\ pre' = Self
    /\ steps' = steps + 1
    /\ UNCHANGED <<alive, nextId, emplaced, refs>>

\* v.pushOOB(data, n)
callPushOOB(n) ==
    \E r \in {pushOOB(Self, Bytes(steps + 1, n), n)} : Pushed("pushOOB", n, r, n)

\* v.pushOOBString(std::string_view) of len characters
callPushOOBString(len) ==
    \E r \in {pushOOBString(Self, steps + 1, len)} :
        Pushed("pushOOBString", len, r, len + 1)

\* v.pushOOBString(const std::string&)
callPushOOBStdString(len) ==
    \E r \in {pushOOBString_string(Self, steps + 1, len)} :
        Pushed("pushOOBString(std::string)", len, r, len + 1)

\* v.pushOOBString(const char*)
callPushOOBCString(len) ==
    \E r \in {pushOOBString_cstr(Self, steps + 1, len)} :
        Pushed("pushOOBString(const char*)", len, r, len + 1)

\* v.clear(resetToOneChunk); the references handed out so far end here
callClear(resetToOneChunk) ==
    /\ Commit(clear(Self, resetToOneChunk))
    /\ lastOp' = Call("clear", resetToOneChunk, nullptr)
    /\ emplaced' = <<>>
    /\ refs' = [k \in {} |-> nullptr]
    /\ handed' = {}
    /\ iterated' = <<>>
    /\ pre' = Self
    /\ steps' = steps + 1
    /\ UNCHANGED <<alive, nextId>>

EmplaceBack(derivedSize) ==
    /\ alive /\ steps < MaxSteps
    /\ callEmplaceBack(derivedSize)
    /\ UNCHANGED <<calls, previous>>

PushOOB(n) ==
    /\ alive /\ steps < MaxSteps
    /\ callPushOOB(n)
    /\ UNCHANGED <<calls, previous>>

PushOOBString(len) ==
    /\ alive /\ steps < MaxSteps
    /\ callPushOOBString(len)
    /\ UNCHANGED <<calls, previous>>

Clear(resetToOneChunk) ==
    /\ alive /\ steps < MaxSteps
    /\ callClear(resetToOneChunk)
    /\ UNCHANGED <<calls, previous>>

\* the container goes out of scope
Destroy ==
    /\ alive
    /\ Commit(destructor(Self))
    /\ alive' = FALSE
    /\ lastOp' = Call("destructor", 0, nullptr)
    /\ emplaced' = <<>>
    /\ refs' = [k \in {} |-> nullptr]
    /\ handed' = {}
    /\ iterated' = <<>>
    /\ pre' = Self
    /\ UNCHANGED <<nextId, steps, calls, previous>>

\* mutant: a traversal that takes the skipFirstHeader flags off as it passes
RangeFor_flagsConsumed ==
    /\ alive
    /\ lastOp.op # "rangeFor"
    /\ iterated' = rangeFor(Self)
    /\ lastOp' = Call("rangeFor", 0, nullptr)
    /\ chunks' = [c \in DOMAIN chunks |-> [chunks[c] EXCEPT !.skipFirstHeader = FALSE]]
    /\ UNCHANGED <<m_head, m_tail, m_lastHeader, m_numElements, nextChunk,
                   freed, destroyed, faults, alive, nextId, emplaced, refs, pre, steps,
                   handed, calls, previous>>

\* for (const Base& obj : v), as checkElements and executeAll run it
RangeFor ==
    /\ alive
    /\ lastOp.op # "rangeFor"
    /\ iterated' = rangeFor(Self)
    /\ lastOp' = Call("rangeFor", 0, nullptr)
    /\ UNCHANGED <<chunks, m_head, m_tail, m_lastHeader, m_numElements, nextChunk,
                   freed, destroyed, faults, alive, nextId, emplaced, refs, pre, steps,
                   handed, calls, previous>>

Next ==
    \/ \E derivedSize \in DerivedSizes : EmplaceBack(derivedSize)
    \/ \E n \in OOBSizes : PushOOB(n)
    \/ \E len \in StringLengths : PushOOBString(len)
    \/ \E resetToOneChunk \in ResetSizes : Clear(resetToOneChunk)
    \/ Destroy
    \/ RangeFor

Spec == Init /\ [][Next]_vars

-----------------------------------------------------------------------------
(* A workload run twice: some calls are made and recorded (calls), the
   container is emptied by clear() (previous), and the same calls are made
   again, as a program does that fills and clears a CommandVector every frame *)

\* the byte counts given to pushOOB here: also one that no first chunk of the
\* initial capacity can take behind its header
WorkloadOOBSizes == OOBSizes \cup {InitialChunkCapacity}

\* the lengths of the strings pushed here: also the empty string
WorkloadStringLengths == StringLengths \cup {0}

\* true of the call the workload can make now: any call while the workload is
\* being recorded, the next recorded call once it is run again
mayCall(op, arg) ==
    /\ alive
    /\ IF previous.by = "refill"
       THEN /\ Len(calls) < Len(previous.calls)
            /\ previous.calls[Len(calls) + 1] = [op |-> op, arg |-> arg]
       ELSE steps < MaxWorkload

recorded(op, arg) ==
    /\ calls' = Append(calls, [op |-> op, arg |-> arg])
    /\ UNCHANGED previous

WorkloadEmplaceBack(derivedSize) ==
    /\ mayCall("emplace_back", derivedSize)
    /\ callEmplaceBack(derivedSize)
    /\ recorded("emplace_back", derivedSize)

WorkloadPushOOB(n) ==
    /\ mayCall("pushOOB", n)
    /\ callPushOOB(n)
    /\ recorded("pushOOB", n)

WorkloadPushOOBString(len) ==
    /\ mayCall("pushOOBString", len)
    /\ callPushOOBString(len)
    /\ recorded("pushOOBString", len)

WorkloadPushOOBStdString(len) ==
    /\ mayCall("pushOOBString(std::string)", len)
    /\ callPushOOBStdString(len)
    /\ recorded("pushOOBString(std::string)", len)

WorkloadPushOOBCString(len) ==
    /\ mayCall("pushOOBString(const char*)", len)
    /\ callPushOOBCString(len)
    /\ recorded("pushOOBString(const char*)", len)

\* a clear made while the workload is recorded: the recording starts again
WorkloadClear(resetToOneChunk) ==
    /\ alive /\ previous.by # "refill" /\ steps < MaxWorkload
    /\ callClear(resetToOneChunk)
    /\ calls' = <<>>
    /\ previous' = Run("clear", resetToOneChunk, calls, layout(Self), nextChunk')

\* v.clear() at the end of the recorded workload, which is then run again
Refill ==
    /\ alive /\ previous.by # "refill" /\ calls # <<>>
    /\ callClear(0)
    /\ calls' = <<>>
    /\ previous' = Run("refill", 0, calls, layout(Self), nextChunk')

\* auto [used, total] = v.calcCapacity(), as checkChunks calls it: the function
\* is const, what it returns is kept in lastOp.ret
CalcCapacity ==
    /\ alive
    /\ lastOp.op # "calcCapacity"
    /\ lastOp' = Call("calcCapacity", 0,
                      [used |-> calcCapacity(Self)[1], total |-> calcCapacity(Self)[2]])
    /\ UNCHANGED <<chunks, m_head, m_tail, m_lastHeader, m_numElements, nextChunk,
                   freed, destroyed, faults, alive, nextId, emplaced, refs, pre, steps,
                   handed, calls, previous, iterated>>

NextLayout ==
    \/ \E derivedSize \in DerivedSizes : WorkloadEmplaceBack(derivedSize)
    \/ \E n \in WorkloadOOBSizes : WorkloadPushOOB(n)
    \/ \E len \in WorkloadStringLengths : WorkloadPushOOBString(len)
    \/ \E len \in WorkloadStringLengths : WorkloadPushOOBStdString(len)
    \/ \E len \in WorkloadStringLengths : WorkloadPushOOBCString(len)
    \/ \E resetToOneChunk \in ResetSizes : WorkloadClear(resetToOneChunk)
    \/ Refill
    \/ CalcCapacity

SpecLayout == Init /\ [][NextLayout]_vars

-----------------------------------------------------------------------------
(* A container through its life as the owner of its chunks: written to,
   executed as a CommandVector executes its commands, reset to one chunk of a
   capacity that may be no multiple of alignof(T), assigned another container
   by move, and destroyed *)

\* the values given to clear here: also capacities that are not aligned
OwnerResetSizes == {0, SizeofT + 1, SizeofHeader + SizeofT + 1}

\* the byte counts given to pushOOB here
OwnerOOBSizes == {0, 5}

\* m_head, m_tail, m_lastHeader and m_numElements of the container the record s
\* is seen from
members(s) ==
    [m_head |-> s.m_head, m_tail |-> s.m_tail, m_lastHeader |-> s.m_lastHeader,
     m_numElements |-> s.m_numElements]

\* the same heap and logs, seen from the container whose members are m
withMembers(s, m) ==
    [s EXCEPT !.m_head = m.m_head, !.m_tail = m.m_tail,
              !.m_lastHeader = m.m_lastHeader, !.m_numElements = m.m_numElements]

\* mutant: m_tail left out of the swap
swap_tailKept(s, b) ==
    [s |-> withMembers(s, [b EXCEPT !.m_tail = s.m_tail]),
     other |-> [members(s) EXCEPT !.m_tail = b.m_tail]]

\* friend void swap(a, b), a being the container s is seen from: a with the
\* members b had, and the members a had, which are b's now
swap(s, b) == [s |-> withMembers(s, b), other |-> members(s)]

\* PolyChunkVector& operator=(PolyChunkVector&& other), other having the members b
moveAssign(s, b) == swap(deleteAllChunks(clear(s, 0)), b)

\* PolyChunkVector(PolyChunkVector&& other), b being the heap and logs seen from
\* `other`: the new container, whose members start as those of an empty one,
\* swapped with `other`
moveConstruct(b) == swap(withMembers(b, members(constructed)), members(b))

\* what a move leaves to be looked at: the heap and logs as seen from `other`
\* before it, as seen from the destination after it, and the members `other`
\* is left with
Moved(b, mv) == [other |-> b, moved |-> mv.s, left |-> mv.other]

\* how the container that is moved from was made: PolyChunkVector other; then
\* nothing, other.clear(sizeof(T)), or other.emplace_back<Base>(a)
OtherMade == {"PolyChunkVector", "clear", "emplace_back"}

\* `other` made next to the container s is seen from: the heap and logs seen
\* from `other`, and the element emplaced in it, if any
makeOther(s, made, a) ==
    IF made = "emplace_back"
    THEN emplace_back(withMembers(s, members(constructed)), SizeofT, a)
    ELSE IF made = "clear"
    THEN Returned(clear(withMembers(s, members(constructed)), SizeofT), nullptr)
    ELSE Returned(withMembers(s, members(constructed)), nullptr)

\* v = std::move(other), for the `other` that r describes
moveAssignFrom(s, r) == moveAssign(withMembers(r.s, members(s)), members(r.s))

\* `other` goes out of scope after the assignment mv: its destructor runs, and
\* what is left is seen from v again
otherDestroyed(mv) == withMembers(destructor(withMembers(mv.s, mv.other)), members(mv.s))

\* mutant: the commands taken out of the container once they have run
executeAll_consuming(s) ==
    [s |-> clear(s, 0), invoked |-> rangeFor(s), ret |-> size(s)]

\* size_t CommandVector::executeAll(): the commands invoked, in the order of
\* their invocation, and what is returned; the loop is a traversal, which
\* leaves the container alone
executeAll(s) == [s |-> s, invoked |-> rangeFor(s), ret |-> size(s)]

OwnedEmplaceBack(derivedSize) ==
    /\ alive /\ steps < MaxCalls
    /\ callEmplaceBack(derivedSize)
    /\ UNCHANGED <<calls, previous>>

OwnedPushOOB(n) ==
    /\ alive /\ steps < MaxCalls
    /\ callPushOOB(n)
    /\ UNCHANGED <<calls, previous>>

OwnedPushOOBString(len) ==
    /\ alive /\ steps < MaxCalls
    /\ callPushOOBString(len)
    /\ UNCHANGED <<calls, previous>>

OwnedClear(resetToOneChunk) ==
    /\ alive /\ steps < MaxCalls
    /\ callClear(resetToOneChunk)
    /\ UNCHANGED <<calls, previous>>

\* { PolyChunkVector other; ...; v = std::move(other); }
MoveAssign(made) ==
    /\ alive /\ steps < MaxCalls
    /\ \E r \in {makeOther(Self, made, nextId)} :
           /\ \E mv \in {moveAssignFrom(Self, r)} :
                  /\ Commit(otherDestroyed(mv))
                  /\ lastOp' = Call("operator=", made, Moved(r.s, mv))
           /\ emplaced' = IF r.ptr = nullptr THEN <<>> ELSE <<nextId>>
           /\ refs' = [k \in IF r.ptr = nullptr THEN {} ELSE {nextId} |-> r.ptr]
           /\ handed' = Region(r.s.chunks, r.ptr, SizeofT)
           /\ nextId' = IF r.ptr = nullptr THEN nextId ELSE nextId + 1
    /\ iterated' = <<>>
    /\ pre' = Self
    /\ steps' = steps + 1
    /\ UNCHANGED <<alive, calls, previous>>

\* { PolyChunkVector w(std::move(v)); } with v the container so far, which
\* goes out of scope; the calls that follow are made on w
MoveConstruct ==
    /\ alive /\ steps < MaxCalls
    /\ \E mv \in {moveConstruct(Self)} :
           /\ Commit(otherDestroyed(mv))
           /\ lastOp' = Call("PolyChunkVector(PolyChunkVector&&)", 0, Moved(Self, mv))
    /\ iterated' = <<>>
    /\ pre' = Self
    /\ steps' = steps + 1
    /\ UNCHANGED <<alive, nextId, emplaced, refs, handed, calls, previous>>

\* n = q.executeAll(), made at most twice in a row: lastOp.arg tells the runs
\* made since the last call of another function
ExecuteAll ==
    /\ alive
    /\ lastOp.op = "executeAll" => lastOp.arg < 2
    /\ \E r \in {executeAll(Self)} :
           /\ Commit(r.s)
           /\ iterated' = r.invoked
           /\ lastOp' = Call("executeAll",
                             IF lastOp.op = "executeAll" THEN lastOp.arg + 1 ELSE 1,
                             r.ret)
    /\ pre' = Self
    /\ UNCHANGED <<alive, nextId, emplaced, refs, steps, handed, calls, previous>>

NextOwner ==
    \/ \E derivedSize \in DerivedSizes : OwnedEmplaceBack(derivedSize)
    \/ \E n \in OwnerOOBSizes : OwnedPushOOB(n)
    \/ \E len \in StringLengths : OwnedPushOOBString(len)
    \/ \E resetToOneChunk \in OwnerResetSizes : OwnedClear(resetToOneChunk)
    \/ \E made \in OtherMade : MoveAssign(made)
    \/ MoveConstruct
    \/ ExecuteAll
    \/ Destroy

SpecOwner == Init /\ [][NextOwner]_vars

-----------------------------------------------------------------------------
(* Properties *)

\* the three overloads of pushOOBString
StringPushes ==
    {"pushOOBString", "pushOOBString(std::string)", "pushOOBString(const char*)"}

OOBPushes == {"pushOOB"} \cup StringPushes

Writes == {"emplace_back"} \cup OOBPushes

Clears == {"clear", "destructor"}

Count(seq, x) == Cardinality({i \in DOMAIN seq : seq[i] = x})

\* the chain of the container as it was before the last call, and as it is
chainBefore == chain(pre.chunks, pre.m_head)
chainNow == chain(chunks, m_head)

\* C1: address stability. A call of emplace_back, pushOOB or pushOOBString
\* leaves every element emplaced before it where it was: the reference handed
\* out for it still designates a chunk that is allocated, never released and
\* of unchanged capacity, at the same offset inside the used part of that
\* chunk, and the object there is the same object, behind a header.
C1_AddressStability ==
    [][lastOp'.op \in Writes =>
          /\ \A k \in DOMAIN refs :
                LET p == refs[k]
                IN  /\ k \in DOMAIN refs' /\ refs'[k] = p
                    /\ p.c \in DOMAIN chunks' /\ p.c \notin freed'
                    /\ chunks'[p.c].cap = chunks[p.c].cap
                    /\ hasObject(chunks'[p.c], p.off)
                    /\ chunks'[p.c].mem[p.off] = chunks[p.c].mem[p.off]
                    /\ hasHeader(chunks'[p.c], p.off - SizeofHeader)
                    /\ p.off + chunks'[p.c].mem[p.off].len <= chunks'[p.c].usedCap
          /\ \A k \in DOMAIN refs' :
                /\ hasObject(chunks'[refs'[k].c], refs'[k].off)
                /\ chunks'[refs'[k].c].mem[refs'[k].off].val = k
    ]_vars

\* an OOB push made after two elements that live in different chunks
C1_Witness ==
    /\ lastOp.op = "pushOOBString"
    /\ Len(emplaced) >= 2
    /\ refs[emplaced[1]].c # refs[emplaced[2]].c
    /\ refs[emplaced[1]].c # m_tail

\* C2: a traversal from begin() to end() visits exactly the elements emplaced
\* since the last clear, each once, in the order of their emplacement, and
\* no position that holds OOB bytes or a chunk-leading OOB header.
C2_TraversalYieldsEmplaced ==
    alive => /\ rangeFor(Self) = emplaced
             /\ lastOp.op = "rangeFor" => iterated = emplaced

\* a traversal of two elements or more over a chain with a chunk-leading OOB header
C2_Witness ==
    /\ lastOp.op = "rangeFor"
    /\ Len(iterated) >= 2
    /\ \E c \in Range(chainNow) : chunks[c].skipFirstHeader /\ chunks[c].usedCap > 0

\* C3: begin() is end() exactly when size() is 0, and otherwise begin() is the
\* position of the first element emplaced since the last clear, whatever empty
\* or OOB-only chunks come before it in the chain.
C3_BeginSkipsHoles ==
    alive => /\ (begin(Self) = end) <=> (size(Self) = 0)
             /\ emplaced # <<>> =>
                    begin(Self) = Iterator(refs[emplaced[1]].c,
                                           refs[emplaced[1]].off - SizeofHeader)

\* an empty chunk, then a chunk of OOB bytes only, then the first element
C3_Witness ==
    /\ alive
    /\ Len(chainNow) >= 3
    /\ chunks[chainNow[1]].usedCap = 0
    /\ chunks[chainNow[2]].usedCap > 0
    /\ begin(Self).c = chainNow[3]

\* C4: every element ever emplaced and no longer in the container was
\* destroyed exactly once, every element still in it was never destroyed, and
\* the destructor never ran on anything but an element: not on OOB bytes and
\* not behind a chunk-leading OOB header. After clear and after the
\* destruction of the container no element is left in it.
C4_DestroyedExactlyOnce ==
    /\ \A k \in 1..(nextId - 1) :
          Count(destroyed, k) = IF k \in Range(emplaced) THEN 0 ELSE 1
    /\ \A i \in DOMAIN destroyed : destroyed[i] \in 1..(nextId - 1)
    /\ lastOp.op \in Clears => emplaced = <<>> /\ Len(destroyed) = nextId - 1

\* a clear or a destruction of two elements or more and a chunk-leading OOB header
C4_Witness ==
    /\ lastOp.op \in Clears
    /\ pre.m_numElements >= 2
    /\ \E c \in Range(chainBefore) : pre.chunks[c].skipFirstHeader

\* C5: clear and the destruction of the container destroy the elements in the
\* order of their emplacement: the destructor calls they make are those of the
\* elements emplaced since the last clear, first emplaced first.
C5_DestroyedInInsertionOrder ==
    [][lastOp'.op \in Clears => destroyed' = destroyed \o emplaced]_vars

\* a clear of elements that lay in two chunks or more
C5_Witness ==
    /\ lastOp.op = "clear"
    /\ pre.m_numElements >= 2
    /\ pre.m_head # pre.m_tail
    /\ pre.chunks[pre.m_head].usedCap > 0

\* C6: clear() with no argument keeps the chain: the same chunks in the same
\* order with the same capacities, none released and none allocated; every
\* chunk has usedCap 0 and skipFirstHeader false, so calcCapacity() is
\* (0, the total before); the tail is the head, there is no last header and
\* size() is 0.
C6_ClearRetainsChain ==
    (lastOp.op = "clear" /\ lastOp.arg = 0) =>
        /\ chainNow = chainBefore
        /\ \A c \in Range(chainBefore) :
              /\ c \notin freed
              /\ chunks[c].cap = pre.chunks[c].cap
              /\ chunks[c].usedCap = 0
              /\ ~chunks[c].skipFirstHeader
        /\ nextChunk = pre.nextChunk
        /\ calcCapacity(Self) = <<0, calcCapacity(pre)[2]>>
        /\ m_tail = m_head
        /\ m_lastHeader = nullptr
        /\ size(Self) = 0

\* clear() of a chain of two used chunks or more, one of them opened by OOB bytes
C6_Witness ==
    /\ lastOp.op = "clear" /\ lastOp.arg = 0
    /\ pre.m_tail # pre.m_head
    /\ pre.m_numElements > 0
    /\ \E c \in Range(chainBefore) : pre.chunks[c].skipFirstHeader

\* C7: clear(X), X # 0, on a chain of exactly one chunk of capacity >= X
\* (capacity = X included) destroys the elements and keeps that chunk: it is
\* not released, no chunk is allocated, its capacity is unchanged.
C7_ResetKeepsBigEnoughChunk ==
    (/\ lastOp.op = "clear" /\ lastOp.arg # 0
     /\ Len(chainBefore) = 1
     /\ pre.chunks[pre.m_head].cap >= lastOp.arg) =>
        /\ chainNow = chainBefore
        /\ m_head = pre.m_head /\ m_tail = pre.m_head
        /\ freed = pre.freed
        /\ nextChunk = pre.nextChunk
        /\ chunks[m_head].cap = pre.chunks[pre.m_head].cap
        /\ chunks[m_head].usedCap = 0
        /\ size(Self) = 0
        /\ Len(destroyed) = Len(pre.destroyed) + pre.m_numElements

\* clear(X) of a single chunk whose capacity is exactly X and that holds an element
C7_Witness ==
    /\ lastOp.op = "clear" /\ lastOp.arg # 0
    /\ Len(chainBefore) = 1
    /\ pre.chunks[pre.m_head].cap = lastOp.arg
    /\ pre.m_numElements > 0

\* C8: clear(X), X # 0, on an empty chain, on a chain of more than one chunk or
\* on a single chunk of capacity < X releases every chunk there was and leaves
\* exactly one chunk, newly allocated and empty, of capacity
\* roundUp(max(sizeof(Header) + sizeof(T), X), alignof(T)) >= X, that is head
\* and tail, with no last header and size() = 0.
C8_ResetReleasesAndAllocatesOne ==
    (/\ lastOp.op \in {"clear", "CommandVector"} /\ lastOp.arg # 0
     /\ ~(Len(chainBefore) = 1 /\ pre.chunks[pre.m_head].cap >= lastOp.arg)) =>
        LET least == IF SizeofHeader + SizeofT >= lastOp.arg
                     THEN SizeofHeader + SizeofT ELSE lastOp.arg
        IN  /\ Range(chainBefore) \subseteq freed
            /\ Range(chainBefore) \cap DOMAIN chunks = {}
            /\ chainNow = <<pre.nextChunk>>
            /\ pre.nextChunk \notin DOMAIN pre.chunks \cup pre.freed
            /\ chunks[m_head].cap = ((least + AlignofT - 1) \div AlignofT) * AlignofT
            /\ chunks[m_head].cap >= lastOp.arg
            /\ chunks[m_head].usedCap = 0
            /\ ~chunks[m_head].skipFirstHeader
            /\ m_tail = m_head
            /\ m_lastHeader = nullptr
            /\ size(Self) = 0

\* clear(X) of a chain of two chunks or more that holds elements
C8_Witness ==
    /\ lastOp.op = "clear" /\ lastOp.arg # 0
    /\ Len(chainBefore) >= 2
    /\ pre.m_numElements > 0

\* C9: the first chunk created for a requested capacity C with
\* 0 < C < sizeof(Header) + sizeof(T) is the only chunk and has the capacity
\* sizeof(Header) + sizeof(T) rounded up to a multiple of alignof(T).
C9_MinimumChunkCapacity ==
    (/\ lastOp.op \in {"clear", "CommandVector"}
     /\ pre.m_head = NULL
     /\ 0 < lastOp.arg /\ lastOp.arg < SizeofHeader + SizeofT) =>
        /\ Len(chainNow) = 1
        /\ chunks[m_head].cap =
              ((SizeofHeader + SizeofT + AlignofT - 1) \div AlignofT) * AlignofT

\* clear(C) with such a C on a container that has no chunk yet
C9_Witness ==
    /\ lastOp.op = "clear"
    /\ pre.m_head = NULL
    /\ 0 < lastOp.arg /\ lastOp.arg < SizeofHeader + SizeofT

\* C10: an emplace_back<Derived> that finds
\* tail.usedCap + sizeof(Header) + sizeof(Derived) > tail.cap writes its header
\* at offset 0 of another chunk, which becomes the tail and has a capacity of
\* at least max(sizeof(Header) + sizeof(Derived), capacity of the old tail);
\* the old tail's usedCap is unchanged; and when no chunk followed the old
\* tail, the new tail is newly allocated and the chain is one chunk longer.
C10_OverflowTakesNewChunk ==
    (/\ lastOp.op = "emplace_back"
     /\ pre.m_tail # NULL
     /\ pre.chunks[pre.m_tail].usedCap + SizeofHeader + lastOp.arg
            > pre.chunks[pre.m_tail].cap) =>
        LET old == pre.m_tail
        IN  /\ m_tail # old
            /\ lastOp.ret = [c |-> m_tail, off |-> SizeofHeader]
            /\ hasHeader(chunks[m_tail], 0)
            /\ hasObject(chunks[m_tail], SizeofHeader)
            /\ chunks[m_tail].cap >= SizeofHeader + lastOp.arg
            /\ chunks[m_tail].cap >= pre.chunks[old].cap
            /\ chunks[old].usedCap = pre.chunks[old].usedCap
            /\ pre.chunks[old].next = NULL =>
                  /\ m_tail = pre.nextChunk
                  /\ m_tail \notin DOMAIN pre.chunks
                  /\ Len(chainNow) = Len(chainBefore) + 1

\* an element that does not fit in the space left in a partly used last chunk
C10_Witness ==
    /\ lastOp.op = "emplace_back"
    /\ pre.m_tail # NULL
    /\ pre.chunks[pre.m_tail].next = NULL
    /\ pre.chunks[pre.m_tail].usedCap > 0
    /\ pre.chunks[pre.m_tail].usedCap < pre.chunks[pre.m_tail].cap
    /\ m_tail # pre.m_tail

\* the number of payload bytes the last call, an OOB push, had to store: the
\* bytes given to pushOOB, the characters of a string and the 0 behind them
payloadSize == IF lastOp.op = "pushOOB" THEN lastOp.arg ELSE lastOp.arg + 1

\* n rounded up to a multiple of alignof(T)
alignedUp(n) == ((n + AlignofT - 1) \div AlignofT) * AlignofT

\* the last call, an OOB push, found no chunk, an empty tail, or a tail
\* without room for its aligned payload
opensChunk ==
    \/ pre.m_tail = NULL
    \/ pre.chunks[pre.m_tail].usedCap = 0
    \/ pre.chunks[pre.m_tail].usedCap + alignedUp(payloadSize) > pre.chunks[pre.m_tail].cap

\* the payload of the last call lies behind a new header at offset 0 of the
\* tail, which is used up to the end of the aligned payload and has its
\* skipFirstHeader flag set
leadsTail ==
    /\ m_tail # NULL
    /\ hasHeader(chunks[m_tail], 0)
    /\ chunks[m_tail].mem[0].val = SizeofHeader + alignedUp(payloadSize)
    /\ lastOp.ret = [c |-> m_tail, off |-> SizeofHeader]
    /\ chunks[m_tail].usedCap = SizeofHeader + alignedUp(payloadSize)
    /\ chunks[m_tail].skipFirstHeader
    /\ m_lastHeader = [c |-> m_tail, off |-> 0]

\* C11 as stated, for every payload size n: an OOB push made when there is no
\* chunk, when the tail is empty or when the aligned payload does not fit in
\* the tail stores the payload behind a new header at offset 0 of the chunk
\* that is the tail afterwards, whose usedCap becomes
\* sizeof(Header) + roundUp(n, alignof(T)) and whose skipFirstHeader is set.
C11_Original ==
    (lastOp.op \in OOBPushes /\ opensChunk) => leadsTail

\* C11, amended to n > 0: pushOOB(data, 0) returns nullptr and leaves the
\* container as it was (no chunk is created, no header written).
C11_OOBOpensChunk ==
    /\ (lastOp.op \in OOBPushes /\ payloadSize > 0 /\ opensChunk) => leadsTail
    /\ (lastOp.op \in OOBPushes /\ payloadSize = 0) =>
           lastOp.ret = nullptr /\ Self = pre

\* an OOB push that did not fit behind the elements of a partly used tail
C11_Witness ==
    /\ lastOp.op \in OOBPushes
    /\ pre.m_tail # NULL
    /\ pre.m_numElements > 0
    /\ pre.chunks[pre.m_tail].usedCap > 0
    /\ pre.chunks[pre.m_tail].usedCap < pre.chunks[pre.m_tail].cap
    /\ m_tail # pre.m_tail
    /\ chunks[m_tail].skipFirstHeader

\* the offsets in the used bytes of chunk c at which a header stands (what
\* lies behind usedCap is left over from before the last clear)
headersOf(chs, c) ==
    {o \in DOMAIN chs[c].mem : o < chs[c].usedCap /\ chs[c].mem[o].kind = "hdr"}

\* the last call, an OOB push, found a last header and room in the tail for
\* its aligned payload
fitsBehindLastHeader ==
    /\ pre.m_lastHeader # nullptr
    /\ pre.chunks[pre.m_tail].usedCap + alignedUp(payloadSize) <= pre.chunks[pre.m_tail].cap

\* C12: an OOB push of n bytes made when lastHeader is set and
\* tail.usedCap + roundUp(n, alignof(T)) <= tail.cap puts the payload at the
\* old tail.usedCap, adds exactly roundUp(n, alignof(T)) to tail.usedCap and
\* to the stride of the last header, writes no header, allocates no chunk and
\* leaves skipFirstHeader, the tail and lastHeader as they were. An
\* emplace_back made afterwards leaves the header that absorbed the payload
\* as it is, so the layout of the payload is the same between two elements
\* and after the last one.
C12_OOBAbsorbed ==
    /\ (lastOp.op \in OOBPushes /\ fitsBehindLastHeader) =>
          /\ m_tail = pre.m_tail /\ m_lastHeader = pre.m_lastHeader
          /\ nextChunk = pre.nextChunk /\ chainNow = chainBefore
          /\ payloadSize > 0 =>
                /\ lastOp.ret = [c |-> pre.m_tail, off |-> pre.chunks[pre.m_tail].usedCap]
                /\ lastOp.ret.off \in DOMAIN chunks[m_tail].mem
                /\ chunks[m_tail].mem[lastOp.ret.off].kind \in {"oob", "nul"}
          /\ chunks[m_tail].usedCap =
                 pre.chunks[pre.m_tail].usedCap + alignedUp(payloadSize)
          /\ hasHeader(pre.chunks[pre.m_tail], pre.m_lastHeader.off)
          /\ hasHeader(chunks[m_tail], m_lastHeader.off)
          /\ chunks[m_tail].mem[m_lastHeader.off].val =
                 pre.chunks[pre.m_tail].mem[pre.m_lastHeader.off].val
                     + alignedUp(payloadSize)
          /\ \A c \in Range(chainNow) : headersOf(chunks, c) = headersOf(pre.chunks, c)
          /\ \A c \in Range(chainNow) :
                chunks[c].skipFirstHeader = pre.chunks[c].skipFirstHeader
          /\ m_numElements = pre.m_numElements
    /\ (lastOp.op = "emplace_back" /\ pre.m_lastHeader # nullptr) =>
          /\ hasHeader(chunks[pre.m_lastHeader.c], pre.m_lastHeader.off)
          /\ chunks[pre.m_lastHeader.c].mem[pre.m_lastHeader.off] =
                 pre.chunks[pre.m_lastHeader.c].mem[pre.m_lastHeader.off]

\* a string pushed behind an element, in the room left in the tail
C12_Witness ==
    /\ lastOp.op \in StringPushes
    /\ pre.m_numElements > 0
    /\ fitsBehindLastHeader
    /\ lastOp.ret = [c |-> pre.m_tail, off |-> pre.chunks[pre.m_tail].usedCap]

\* the offsets of the headers found in chunk ch by going from pos on by
\* strides, as clear and the iterator do (-1: bytes that hold no header)
RECURSIVE records(_, _)
records(ch, pos) ==
    IF pos >= ch.usedCap THEN {}
    ELSE IF ~hasHeader(ch, pos) THEN {-1}
    ELSE {pos} \cup records(ch, pos + ch.mem[pos].val)

\* region h lies behind header o of its chunk, inside the stride of o
behindHeader(h, o) ==
    /\ o + SizeofHeader <= h.ptr.off
    /\ h.ptr.off + h.len <= o + chunks[h.ptr.c].mem[o].val

disjoint(g, h) ==
    \/ g.ptr.c # h.ptr.c
    \/ g.ptr.off + g.len <= h.ptr.off
    \/ h.ptr.off + h.len <= g.ptr.off

\* C13: every region handed out by emplace_back, pushOOB or pushOOBString
\* since the last clear lies in one chunk of the chain, inside its used bytes
\* and its capacity, behind one of the chunk's headers and inside that
\* header's stride, so that it overlaps no header; no two regions overlap; and
\* the bytes of every region are those the call that handed it out left there.
C13_RegionsStable ==
    alive =>
        /\ \A c \in Range(chainNow) :
              /\ chunks[c].usedCap <= chunks[c].cap
              /\ -1 \notin records(chunks[c], 0)
              /\ \A o \in records(chunks[c], 0) :
                    o + chunks[c].mem[o].val <= chunks[c].usedCap
        /\ \A h \in handed :
              /\ h.ptr.c \in Range(chainNow) /\ h.ptr.c \notin freed
              /\ 0 <= h.ptr.off /\ h.ptr.off + h.len <= chunks[h.ptr.c].usedCap
              /\ \E o \in records(chunks[h.ptr.c], 0) : behindHeader(h, o)
              /\ regionContent(chunks, h.ptr, h.len) = h.content
        /\ \A g, h \in handed : g # h => disjoint(g, h)

\* OOB bytes and an element in one chunk, and a write made after both
C13_Witness ==
    /\ lastOp.op \in Writes
    /\ \E g, h \in handed :
          /\ g.ptr.c = h.ptr.c
          /\ \E o \in DOMAIN g.content : g.content[o].kind = "oob"
          /\ \E o \in DOMAIN h.content : h.content[o].kind = "obj"
          /\ lastOp.ret \notin {nullptr, g.ptr, h.ptr}

\* the bytes of the tail from the pointer the last call returned to the end of
\* the used bytes: what the call reserved for its payload
reservedBytes == chunks[m_tail].usedCap - lastOp.ret.off

usedBefore ==
    IF pre.m_tail # NULL /\ m_tail = pre.m_tail THEN pre.chunks[pre.m_tail].usedCap ELSE 0

\* the bytes of a header, taken by a push that opens its chunk and by no other
headerBytes == IF usedBefore = 0 THEN SizeofHeader ELSE 0

mayAllocateFirst ==
    \/ lastOp.op = "emplace_back"
    \/ lastOp.op \in OOBPushes /\ payloadSize > 0
    \/ lastOp.op \in {"clear", "CommandVector"} /\ lastOp.arg # 0

\* the bytes the last call, a write, asked getSpace for, header included
requiredSize ==
    SizeofHeader + (IF lastOp.op = "emplace_back" THEN lastOp.arg
                    ELSE alignedUp(payloadSize))

\* C16: a container for which no chunk was allocated yet has no head and no
\* tail, calcCapacity() = (0, 0) and size() = 0; the call that allocates its
\* first chunk is an emplace_back, a push of OOB bytes that are not none or a
\* clear(X # 0); and a write that finds no chain allocates exactly one chunk,
\* of capacity max(sizeof(Header) + payload, InitialChunkCapacity) rounded up
\* to alignof(T), which becomes head and tail.
C16_LazyAllocation ==
    /\ nextChunk = 1 =>
          /\ m_head = NULL /\ m_tail = NULL /\ DOMAIN chunks = {}
          /\ calcCapacity(Self) = <<0, 0>>
          /\ size(Self) = 0
          /\ lastOp.op = "calcCapacity" => lastOp.ret = [used |-> 0, total |-> 0]
    /\ (nextChunk > 1 /\ pre.nextChunk = 1 /\ lastOp.op # "calcCapacity") =>
          mayAllocateFirst
    /\ (lastOp.op \in Writes /\ pre.m_head = NULL /\ lastOp.ret # nullptr) =>
          /\ nextChunk = pre.nextChunk + 1
          /\ chainNow = <<pre.nextChunk>>
          /\ m_head = pre.nextChunk /\ m_tail = pre.nextChunk
          /\ chunks[m_head].cap =
                 alignedUp(IF requiredSize >= InitialChunkCapacity
                           THEN requiredSize ELSE InitialChunkCapacity)

\* a first write that needs more than the initial capacity, made after calls
\* that allocated nothing
C16_Witness ==
    /\ lastOp.op = "pushOOB"
    /\ pre.m_head = NULL /\ pre.nextChunk = 1
    /\ steps > 1
    /\ m_head # NULL
    /\ chunks[m_head].cap > InitialChunkCapacity

\* C17: size() is the number of emplace_back calls made since the last clear
\* or, if there was none, since the construction: an emplace_back adds
\* exactly 1 to it, an OOB push and a traversal leave it as it is, clear and
\* the destructor make it 0; and size() > 0 only if the chain has a chunk.
C17_SizeCountsEmplaced ==
    /\ size(Self) = Len(emplaced)
    /\ lastOp.op = "emplace_back" => size(Self) = size(pre) + 1
    /\ lastOp.op \in OOBPushes => size(Self) = size(pre)
    /\ lastOp.op = "rangeFor" => size(Self) = Len(iterated)
    /\ lastOp.op \in Clears \cup {"CommandVector"} => size(Self) = 0
    /\ size(Self) > 0 => m_head # NULL /\ m_tail # NULL /\ chainNow # <<>>

\* elements emplaced after a clear of other elements, with OOB pushes between
C17_Witness ==
    /\ size(Self) >= 2
    /\ Len(destroyed) >= 1
    /\ lastOp.op \in OOBPushes /\ lastOp.ret # nullptr

\* the sum of the numbers of a sequence
RECURSIVE total(_)
total(seq) == IF seq = <<>> THEN 0 ELSE Head(seq) + total(Tail(seq))

\* C18: calcCapacity() returns the sum of usedCap and the sum of cap over all
\* the chunks of the chain, the empty chunks kept behind the tail and the
\* chunks before the tail included, and leaves the container, its chunks and
\* their bytes as they were.
C18_CalcCapacitySums ==
    [][lastOp'.op = "calcCapacity" =>
          /\ lastOp'.ret.used = total([i \in DOMAIN chainNow |-> chunks[chainNow[i]].usedCap])
          /\ lastOp'.ret.total = total([i \in DOMAIN chainNow |-> chunks[chainNow[i]].cap])
          /\ Self' = Self
    ]_vars

\* calcCapacity() on a chain whose tail is neither its first nor its last chunk
C18_Witness ==
    /\ lastOp.op = "calcCapacity"
    /\ Len(chainNow) >= 3
    /\ m_tail # m_head /\ chunks[m_tail].next # NULL
    /\ chunks[chunks[m_tail].next].usedCap = 0
    /\ chunks[m_head].usedCap > 0
    /\ lastOp.ret.used > chunks[m_tail].usedCap
    /\ lastOp.ret.total > lastOp.ret.used

\* the last call, a write, had to leave the tail it found: its bytes, a header
\* included, did not fit there, and as OOB bytes they could not go behind the
\* last header without one either
overflowsTail ==
    /\ lastOp.op \in Writes /\ lastOp.ret # nullptr
    /\ pre.m_tail # NULL
    /\ pre.chunks[pre.m_tail].usedCap + requiredSize > pre.chunks[pre.m_tail].cap
    /\ lastOp.op \in OOBPushes => ~fitsBehindLastHeader

\* the places in the chain, as the last call found it, of the empty chunks
\* behind the tail that can take its bytes
retainedFits ==
    {i \in DOMAIN chainBefore :
        /\ \E j \in 1..(i - 1) : chainBefore[j] = pre.m_tail
        /\ pre.chunks[chainBefore[i]].usedCap = 0
        /\ pre.chunks[chainBefore[i]].cap >= requiredSize}

\* C19: when a write that needs R bytes (header and payload) does not fit in
\* the tail and an empty chunk behind the tail has a capacity >= R, the first
\* such chunk of the chain becomes the tail and takes the write at its offset
\* 0, and no chunk is allocated: the chain and its capacities are unchanged.
C19_RetainedChunkReused ==
    (overflowsTail /\ retainedFits # {}) =>
        /\ \E i \in retainedFits :
              /\ \A j \in retainedFits : i <= j
              /\ m_tail = chainBefore[i]
        /\ lastOp.ret = [c |-> m_tail, off |-> SizeofHeader]
        /\ hasHeader(chunks[m_tail], 0)
        /\ chunks[m_tail].mem[0].val = requiredSize
        /\ chunks[m_tail].usedCap = requiredSize
        /\ nextChunk = pre.nextChunk
        /\ chainNow = chainBefore
        /\ calcCapacity(Self)[2] = calcCapacity(pre)[2]

\* a write that passes over a retained chunk too small for it and takes the
\* next one, which it fills to the last byte
C19_Witness ==
    /\ overflowsTail /\ retainedFits # {}
    /\ m_tail # pre.chunks[pre.m_tail].next
    /\ chunks[m_tail].usedCap = chunks[m_tail].cap

\* C20: when calls of emplace_back and of the OOB pushes have been made on an
\* empty container, clear() has been called and the same calls are made
\* again, no chunk is allocated or released at any point of the second run,
\* and at its end the chain has the same number of chunks, each with the
\* capacity and the used bytes it had at the end of the first run.
C20_RefillAllocatesNothing ==
    previous.by = "refill" =>
        /\ nextChunk = previous.nextChunk
        /\ freed = pre.freed
        /\ Len(layout(Self)) = Len(previous.layout)
        /\ \A i \in DOMAIN previous.layout : layout(Self)[i].cap = previous.layout[i].cap
        /\ Len(calls) = Len(previous.calls) => layout(Self) = previous.layout

\* the end of the second run of a workload of elements and OOB bytes whose
\* last call leaves one retained chunk for another
C20_Witness ==
    /\ previous.by = "refill"
    /\ Len(calls) = Len(previous.calls)
    /\ Len(calls) >= 2
    /\ \E i \in DOMAIN calls : calls[i].op = "emplace_back"
    /\ \E i \in DOMAIN calls : calls[i].op \in OOBPushes /\ calls[i].arg > 0
    /\ lastOp.op \in Writes
    /\ pre.m_tail # NULL /\ pre.chunks[pre.m_tail].usedCap > 0
    /\ m_tail # pre.m_tail

-----------------------------------------------------------------------------
(* The chain *)

\* the chunks that follow the tail, and those that come before it
afterTail == IF m_tail = NULL THEN {} ELSE Range(chain(chunks, chunks[m_tail].next))

beforeTail == (Range(chainNow) \ afterTail) \ {m_tail}

\* C25: in every reachable state every chunk of the chain has
\* usedCap <= cap.
C25_UsedWithinCapacity ==
    \A c \in Range(chainNow) : chunks[c].usedCap <= chunks[c].cap

\* bytes pushed on a tail that is full to its last byte
C25_Witness ==
    /\ lastOp.op \in OOBPushes /\ lastOp.ret # nullptr
    /\ pre.m_tail # NULL /\ pre.m_lastHeader # nullptr
    /\ pre.chunks[pre.m_tail].usedCap = pre.chunks[pre.m_tail].cap
    /\ chunks[pre.m_tail].usedCap = chunks[pre.m_tail].cap

\* C26: in every reachable state every chunk that follows the tail in the
\* chain has usedCap = 0, and the assert of getFreeChunk on the chunks it
\* walks past or adopts has never failed.
C26_RetainedAfterTailEmpty ==
    /\ \A c \in afterTail : chunks[c].usedCap = 0
    /\ "assert getFreeChunk m_tail->usedCap == 0" \notin faults

\* a write that walked over retained chunks and left some behind the new tail
C26_Witness ==
    /\ lastOp.op \in Writes
    /\ pre.m_tail # NULL /\ pre.chunks[pre.m_tail].next # NULL
    /\ m_tail # pre.m_tail
    /\ m_tail # pre.chunks[pre.m_tail].next
    /\ afterTail # {}

\* true when the next links from c end within `fuel` chunks, all of them allocated
RECURSIVE endsWithin(_, _, _)
endsWithin(chs, c, fuel) ==
    IF c = NULL THEN TRUE
    ELSE IF fuel = 0 \/ c \notin DOMAIN chs THEN FALSE
    ELSE endsWithin(chs, chs[c].next, fuel - 1)

\* C27: in every reachable state m_tail is null exactly when m_head is, and
\* otherwise the next links from m_head pass through allocated chunks only,
\* never through the same chunk twice, reach m_tail and end.
C27_TailReachableFromHead ==
    /\ (m_tail = NULL) <=> (m_head = NULL)
    /\ endsWithin(chunks, m_head, Cardinality(DOMAIN chunks))
    /\ m_head # NULL =>
          /\ m_tail \in Range(chainNow)
          /\ Cardinality(Range(chainNow)) = Len(chainNow)
          /\ Range(chainNow) \cap freed = {}

\* the tail in the middle of a chain of three chunks or more
C27_Witness ==
    /\ Len(chainNow) >= 3
    /\ beforeTail # {} /\ afterTail # {}
    /\ chunks[m_tail].usedCap > 0

\* C28 as stated: every chunk with usedCap = 0 is the tail or follows it.
C28_Original ==
    \A c \in Range(chainNow) : chunks[c].usedCap = 0 => c \in {m_tail} \cup afterTail

\* C28: every chunk with usedCap = 0 is the tail, or follows the tail, or
\* comes before it and has a smaller capacity than the tail: a write that
\* needed more than its capacity walked past it.
C28_EmptyBeforeTailIsSmaller ==
    \A c \in Range(chainNow) :
        chunks[c].usedCap = 0 =>
            \/ c \in {m_tail} \cup afterTail
            \/ c \in beforeTail /\ chunks[c].cap < chunks[m_tail].cap

\* a write that found the empty tail too small and went to a later chunk
C28_Witness ==
    /\ lastOp.op \in Writes
    /\ pre.m_tail # NULL /\ pre.chunks[pre.m_tail].usedCap = 0
    /\ m_tail # pre.m_tail
    /\ pre.m_tail \in beforeTail /\ chunks[pre.m_tail].usedCap = 0

\* true when an element was emplaced at offset off of chunk c
isElementAt(c, off) == \E k \in DOMAIN refs : refs[k] = [c |-> c, off |-> off]

\* C29: in every reachable state a chunk's skipFirstHeader is true exactly
\* when the chunk is not empty and the header at its offset 0 is that of OOB
\* bytes, not of an element; so it is false in every empty chunk, and an OOB
\* push behind the header of an element leaves it false.
C29_SkipFlagMarksLeadingOOB ==
    \A c \in Range(chainNow) :
        chunks[c].skipFirstHeader <=>
            /\ chunks[c].usedCap > 0
            /\ hasHeader(chunks[c], 0)
            /\ ~isElementAt(c, SizeofHeader)
            /\ ~hasObject(chunks[c], SizeofHeader)

\* an OOB push put behind an element of a chunk that begins with an element,
\* in a chain where another chunk begins with OOB bytes
C29_Witness ==
    /\ lastOp.op \in OOBPushes /\ lastOp.ret # nullptr
    /\ m_tail = pre.m_tail
    /\ isElementAt(m_tail, SizeofHeader)
    /\ ~chunks[m_tail].skipFirstHeader
    /\ \E c \in beforeTail : chunks[c].skipFirstHeader

-----------------------------------------------------------------------------
(* The iterator *)

\* the number of ++ that take `it` to end(), when at most `most` are applied
\* (-1: end() is not reached, or the iterator left the chain on the way)
RECURSIVE incrementsToEnd(_, _, _)
incrementsToEnd(chs, it, most) ==
    IF it = end THEN 0
    ELSE IF it.c = NULL \/ it = wildIterator \/ most = 0 THEN -1
    ELSE oneMore(incrementsToEnd(chs, increment(chs, it), most - 1))

\* the positions findValid is called with in a traversal: the start of the
\* chain, and behind every record of every chunk
searchStarts ==
    {Iterator(m_head, 0)} \cup
    UNION {{Iterator(c, o + chunks[c].mem[o].val) : o \in headersOf(chunks, c)} :
              c \in Range(chainNow)}

\* C22: in every reachable state findValid returns, from the position begin()
\* gives it and from every position ++ gives it, after at most two turns of
\* its loop for each chunk of the chain and one more; and from begin()
\* exactly size() applications of ++ lead to an iterator equal to end(), that
\* is to (nullptr, 0), and no fewer do.
C22_IterationTerminates ==
    alive =>
        /\ \A it \in searchStarts :
              /\ findValidTurns(chunks, it, 2 * Len(chainNow) + 1) > 0
              /\ findValid(chunks, it).c = NULL => findValid(chunks, it) = end
        /\ incrementsToEnd(chunks, begin(Self), size(Self) + 1) = size(Self)

\* elements in two chunks with an empty chunk and a chunk that begins with
\* OOB bytes in the chain
C22_Witness ==
    /\ alive
    /\ size(Self) >= 2
    /\ refs[emplaced[1]].c # m_tail
    /\ \E c \in Range(chainNow) : chunks[c].usedCap = 0
    /\ \E c \in Range(chainNow) : chunks[c].skipFirstHeader

-----------------------------------------------------------------------------
(* Ownership of the chunks *)

\* the calls that may release chunks
Releases == {"clear", "operator=", "destructor"}

\* C21: every chunk allocated so far is either still allocated and in the
\* chain of the container, or was released, once: released chunks are never
\* in the chain again. A call releases chunks only if it is clear(X) with
\* X # 0, a move assignment to the container or its destruction; it then
\* releases the whole chain it found, after it destroyed every element, so
\* that the asserts of ~Chunk and deleteAllChunks hold; and once the container
\* is destroyed no chunk is allocated.
C21_ChunkLifecycle ==
    /\ DOMAIN chunks \cap freed = {}
    /\ DOMAIN chunks \cup freed = 1..(nextChunk - 1)
    /\ DOMAIN chunks = Range(chainNow)
    /\ pre.freed \subseteq freed
    /\ freed # pre.freed =>
          /\ lastOp.op \in Releases
          /\ lastOp.op = "clear" => lastOp.arg # 0
          /\ freed \ pre.freed = Range(chain(pre.chunks, pre.m_head))
          /\ Len(destroyed) = Len(pre.destroyed) + pre.m_numElements
    /\ "assert ~Chunk usedCap == 0" \notin faults
    /\ "assert deleteAllChunks m_numElements == 0" \notin faults
    /\ ~alive => DOMAIN chunks = {} /\ freed = 1..(nextChunk - 1)

\* a container with elements in two chunks is assigned one that holds an element
C21_Witness ==
    /\ lastOp.op = "operator="
    /\ Cardinality(freed \ pre.freed) >= 2
    /\ pre.m_numElements >= 2
    /\ m_numElements = 1
    /\ DOMAIN chunks # {}

\* C24: executeAll invokes every command pushed since the last clear once, in
\* the order of the pushes, returns size(), and leaves the container as it
\* was, so that a second executeAll invokes them all again; among the
\* functions of CommandVector only clear (and the move assignment and the
\* destructor the compiler gives it) makes size() smaller.
C24_ExecuteAllKeepsCommands ==
    /\ lastOp.op = "executeAll" =>
          /\ iterated = emplaced
          /\ \A k \in Range(emplaced) : Count(iterated, k) = 1
          /\ lastOp.ret = size(Self) /\ lastOp.ret = Len(emplaced)
          /\ Self = pre
    /\ m_numElements < pre.m_numElements => lastOp.op \in Releases

\* a second executeAll in a row, of two commands or more
C24_Witness ==
    /\ lastOp.op = "executeAll"
    /\ lastOp.arg = 2
    /\ Len(iterated) >= 2
    /\ refs[emplaced[1]].c # refs[emplaced[Len(emplaced)]].c

\* C30: in every reachable state the capacity of every chunk is at least
\* sizeof(Header) + sizeof(T) and a multiple of alignof(T), whether the chunk
\* was made for clear(X), for an element or for OOB bytes.
C30_CapacityAlignedAndSufficient ==
    \A c \in DOMAIN chunks :
        /\ chunks[c].cap >= SizeofHeader + SizeofT
        /\ chunks[c].cap % AlignofT = 0

\* clear(X) made a chunk for an X above the minimum that is no multiple of
\* alignof(T), and a write then needed a bigger one
C30_Witness ==
    /\ lastOp.op \in Writes
    /\ Len(chainNow) = 2
    /\ m_tail = chainNow[2]
    /\ chunks[m_head].cap = roundUpToMultipleOf(SizeofHeader + SizeofT + 1, AlignofT)
    /\ chunks[m_tail].cap > chunks[m_head].cap

-----------------------------------------------------------------------------
(* Layout of the records *)

aligned(n) == n % AlignofT = 0

\* C31: with emplaced types whose sizes are multiples of alignof(T), in every
\* reachable state the usedCap of every chunk, the offset and the stride of
\* every header, and the offset and the address of everything emplace_back
\* and the OOB pushes handed out are multiples of alignof(T), whatever the
\* number of OOB bytes pushed; the asserts on the alignment in emplace_back
\* and reserveOOB have never failed.
C31_Alignment ==
    /\ \A c \in Range(chainNow) :
          /\ aligned(chunks[c].usedCap)
          /\ \A o \in headersOf(chunks, c) : aligned(o) /\ aligned(chunks[c].mem[o].val)
    /\ \A h \in handed : aligned(h.ptr.off) /\ isMultipleOf(Address(h.ptr), AlignofT)
    /\ \A k \in DOMAIN refs : aligned(refs[k].off) /\ isMultipleOf(Address(refs[k]), AlignofT)
    /\ (lastOp.op \in Writes /\ lastOp.ret # nullptr) =>
           aligned(lastOp.ret.off) /\ isMultipleOf(Address(lastOp.ret), AlignofT)
    /\ "assert emplace_back isMultipleOf" \notin faults
    /\ "assert reserveOOB isMultipleOf" \notin faults

\* an element emplaced in a chunk behind OOB bytes whose number is no multiple
\* of alignof(T)
C31_Witness ==
    /\ lastOp.op = "emplace_back"
    /\ \E h \in handed :
          /\ ~aligned(h.len)
          /\ h.ptr.c = lastOp.ret.c
          /\ h.ptr.off < lastOp.ret.off

\* the used bytes the tail of now had before the last call (0 for a chunk
\* that call allocated)
tailUsedBefore == IF m_tail \in DOMAIN pre.chunks THEN pre.chunks[m_tail].usedCap ELSE 0

\* C32: an emplace_back<Derived> writes a header whose stride is
\* sizeof(Header) + sizeof(Derived) at the offset that was the usedCap of the
\* chunk that is the tail after the call, constructs the object right behind
\* that header and returns it, adds sizeof(Header) + sizeof(Derived) to that
\* chunk's usedCap and to the used bytes of the whole chain, and makes that
\* header m_lastHeader.
C32_EmplaceBackLayout ==
    lastOp.op = "emplace_back" =>
        /\ hasHeader(chunks[m_tail], tailUsedBefore)
        /\ chunks[m_tail].mem[tailUsedBefore].val = SizeofHeader + lastOp.arg
        /\ lastOp.ret = [c |-> m_tail, off |-> tailUsedBefore + SizeofHeader]
        /\ hasObject(chunks[m_tail], lastOp.ret.off)
        /\ chunks[m_tail].mem[lastOp.ret.off] =
               Cell("obj", emplaced[Len(emplaced)], lastOp.arg)
        /\ chunks[m_tail].usedCap = tailUsedBefore + SizeofHeader + lastOp.arg
        /\ calcCapacity(Self)[1] = calcCapacity(pre)[1] + SizeofHeader + lastOp.arg
        /\ m_lastHeader = [c |-> m_tail, off |-> tailUsedBefore]

\* a Foo emplaced in the tail behind a record that is longer than a Foo and its header
C32_Witness ==
    /\ lastOp.op = "emplace_back"
    /\ lastOp.arg = SizeofFoo
    /\ m_tail = pre.m_tail
    /\ pre.m_numElements > 0
    /\ tailUsedBefore > pre.m_lastHeader.off + SizeofHeader + SizeofFoo

\* C33: in every reachable state m_lastHeader is null exactly when there is
\* no tail or the tail is empty; otherwise it is a header of the tail, the
\* last one: its offset plus its stride is the tail's usedCap. So an OOB push
\* leaves the headers of every chunk that is not the tail after it, stride
\* included, as they were.
C33_LastHeaderLocality ==
    /\ (m_lastHeader = nullptr) <=> (m_tail = NULL \/ chunks[m_tail].usedCap = 0)
    /\ m_lastHeader # nullptr =>
          /\ m_lastHeader.c = m_tail
          /\ hasHeader(chunks[m_tail], m_lastHeader.off)
          /\ m_lastHeader.off + chunks[m_tail].mem[m_lastHeader.off].val
                 = chunks[m_tail].usedCap
    /\ lastOp.op \in OOBPushes =>
          \A c \in Range(chainBefore) \ {m_tail} :
              \A o \in headersOf(pre.chunks, c) :
                  hasHeader(chunks[c], o) /\ chunks[c].mem[o] = pre.chunks[c].mem[o]

\* OOB bytes put behind the last header of the tail, while a chunk before the
\* tail holds an element
C33_Witness ==
    /\ lastOp.op \in OOBPushes /\ lastOp.ret # nullptr
    /\ m_tail = pre.m_tail
    /\ m_lastHeader = pre.m_lastHeader
    /\ \E c \in beforeTail : isElementAt(c, SizeofHeader)

\* the regions handed out in chunk c since the last clear
handedIn(c) == {h \in handed : h.ptr.c = c}

\* the bytes the regions of S take, each rounded up to a multiple of alignof(T)
RECURSIVE alignedBytes(_)
alignedBytes(S) ==
    IF S = {} THEN 0
    ELSE alignedUp((CHOOSE h \in S : TRUE).len)
         + alignedBytes(S \ {CHOOSE h \in S : TRUE})

\* the chunks that an OOB push opened and that took OOB bytes only since
opensWithOOBOnly(c) ==
    /\ chunks[c].skipFirstHeader
    /\ \A k \in DOMAIN refs : refs[k].c # c

\* C34: when an OOB push opened a chunk and more OOB bytes that fit in that
\* chunk were pushed before any element was emplaced, the chunk has one
\* header, at offset 0; its usedCap is sizeof(Header) plus the sum of the
\* payload sizes, each rounded up to alignof(T); the stride of that header
\* is the usedCap, so that clear and the iterator go over all the payloads in
\* one step and find no element in the chunk.
C34_OOBPushesShareHeader ==
    \A c \in Range(chainNow) :
        opensWithOOBOnly(c) =>
            /\ headersOf(chunks, c) = {0}
            /\ chunks[c].usedCap = SizeofHeader + alignedBytes(handedIn(c))
            /\ chunks[c].mem[0].val = chunks[c].usedCap
            /\ clearStart(chunks[c]) = chunks[c].usedCap
            /\ findValidTurn(chunks, Iterator(c, 0)) =
                   turned(Iterator(chunks[c].next, 0), FALSE)

\* three payloads, not all of one size, behind the one header of the tail
C34_Witness ==
    /\ lastOp.op \in OOBPushes
    /\ m_tail # NULL
    /\ opensWithOOBOnly(m_tail)
    /\ Cardinality(handedIn(m_tail)) >= 3
    /\ \E g, h \in handedIn(m_tail) : alignedUp(g.len) # alignedUp(h.len)

\* C35: when a write that needs R bytes (header and payload) does not fit in
\* the tail and no empty chunk behind the tail has a capacity >= R, one chunk
\* is allocated and none released; the new chunk is linked behind the last
\* chunk of the chain, which is otherwise as it was, has the capacity
\* max(R, capacity of the tail the write found) rounded up to alignof(T), and
\* is the tail; the chunks behind the old tail are still empty and now come
\* before the tail.
C35_AppendsBehindLastChunk ==
    (overflowsTail /\ retainedFits = {}) =>
        /\ nextChunk = pre.nextChunk + 1
        /\ freed = pre.freed
        /\ chainNow = Append(chainBefore, pre.nextChunk)
        /\ m_tail = pre.nextChunk
        /\ chunks[m_tail].cap =
               roundUpToMultipleOf(Max(requiredSize, pre.chunks[pre.m_tail].cap), AlignofT)
        /\ \A c \in Range(chain(pre.chunks, pre.chunks[pre.m_tail].next)) :
               /\ chunks[c].usedCap = 0
               /\ chunks[c].cap = pre.chunks[c].cap
               /\ c \in beforeTail

\* a write too big for the tail and for the two chunks retained behind it
C35_Witness ==
    /\ overflowsTail /\ retainedFits = {}
    /\ Len(chain(pre.chunks, pre.chunks[pre.m_tail].next)) >= 2

\* C36: in every reachable state the capacities of the chunks do not
\* decrease from the head to the end of the chain, so that a chunk appended
\* to the chain is at least as big as every chunk already in it.
C36_CapacitiesNonDecreasing ==
    \A i, j \in DOMAIN chainNow :
        i <= j => chunks[chainNow[i]].cap <= chunks[chainNow[j]].cap

\* a chain of three capacities, the last chunk appended by the last call
C36_Witness ==
    /\ lastOp.op \in Writes
    /\ nextChunk = pre.nextChunk + 1
    /\ Len(chainNow) >= 3
    /\ chunks[chainNow[1]].cap < chunks[chainNow[2]].cap
    /\ chunks[chainNow[2]].cap < chunks[chainNow[Len(chainNow)]].cap

\* the chunks whose usedCap the last call increased (a chunk allocated by the
\* call starts at 0), and those whose usedCap it decreased
grownChunks ==
    {c \in DOMAIN chunks :
        chunks[c].usedCap > (IF c \in DOMAIN pre.chunks THEN pre.chunks[c].usedCap ELSE 0)}
shrunkChunks ==
    {c \in DOMAIN pre.chunks : chunks[c].usedCap < pre.chunks[c].usedCap}

\* the headers in the used bytes before the last call that it changed
changedHeaders ==
    UNION {{[c |-> c, off |-> o] :
               o \in {h \in headersOf(pre.chunks, c) :
                         chunks[c].mem[h] # pre.chunks[c].mem[h]}} :
           c \in Range(chainBefore)}

\* what a write leaves alone: no usedCap decreases, the chunks keep their
\* capacities and their order in the chain, and the only header that may
\* change is the last header, by an OOB push absorbed behind it
writeFrame ==
    /\ shrunkChunks = {}
    /\ \A c \in Range(chainBefore) : chunks[c].cap = pre.chunks[c].cap
    /\ Len(chainBefore) <= Len(chainNow)
    /\ chainBefore = SubSeq(chainNow, 1, Len(chainBefore))
    /\ changedHeaders \subseteq
           (IF lastOp.op \in OOBPushes /\ fitsBehindLastHeader
            THEN {pre.m_lastHeader} ELSE {})

\* C37 as stated: every emplace_back and every OOB push increases the
\* usedCap of exactly one chunk, the tail after the call, within the frame
\* of a write.
C37_Original ==
    lastOp.op \in Writes => (grownChunks = {m_tail} /\ writeFrame)

\* C37, amended to the writes that store something: an emplace_back or an
\* OOB push of more than 0 bytes increases the usedCap of exactly one chunk,
\* the tail after the call, and pushOOB(data, 0) increases none; no write
\* decreases a usedCap, changes the capacity or the order of the chunks of
\* the chain, or changes a header other than the last header, which only an
\* OOB push absorbed behind it changes.
C37_WriteFrame ==
    lastOp.op \in Writes =>
        /\ grownChunks = (IF lastOp.op = "pushOOB" /\ lastOp.arg = 0
                          THEN {} ELSE {m_tail})
        /\ writeFrame

\* an OOB push absorbed behind the second element of the tail
C37_Witness ==
    /\ lastOp.op \in OOBPushes
    /\ fitsBehindLastHeader
    /\ pre.m_lastHeader.off > 0
    /\ hasHeader(pre.chunks[pre.m_tail], 0)
    /\ changedHeaders = {pre.m_lastHeader}
    /\ grownChunks = {m_tail}

\* where the walk over chunk ch that starts at pos and goes on by strides,
\* as clear and findValid do, stops (-1: it came upon bytes that hold no
\* header, or upon a stride that does not pass the header)
RECURSIVE walkEnd(_, _)
walkEnd(ch, pos) ==
    IF pos >= ch.usedCap THEN pos
    ELSE IF ~hasHeader(ch, pos) THEN -1
    ELSE IF ch.mem[pos].val < SizeofHeader THEN -1
    ELSE walkEnd(ch, pos + ch.mem[pos].val)

\* C38: in every reachable state and for every chunk of the chain, the walk
\* from offset 0 by strides meets only headers and stops exactly at usedCap,
\* every header of the used bytes is met by it, its stride is at least
\* sizeof(Header) and a multiple of alignof(T), and its offset plus its
\* stride is at most the capacity of the chunk (so the stride is too).
C38_StrideChain ==
    \A c \in Range(chainNow) :
        /\ walkEnd(chunks[c], 0) = chunks[c].usedCap
        /\ records(chunks[c], 0) = headersOf(chunks, c)
        /\ \A o \in headersOf(chunks, c) :
              /\ chunks[c].mem[o].val >= SizeofHeader
              /\ aligned(chunks[c].mem[o].val)
              /\ o + chunks[c].mem[o].val <= chunks[c].cap
              /\ chunks[c].mem[o].val <= chunks[c].cap

\* a chunk of two records, the first with OOB bytes behind its element
C38_Witness ==
    \E c \in Range(chainNow) :
        /\ Cardinality(records(chunks[c], 0)) >= 2
        /\ hasHeader(chunks[c], 0)
        /\ chunks[c].mem[0].val > SizeofHeader + SizeofT
        /\ isElementAt(c, SizeofHeader)
        /\ walkEnd(chunks[c], 0) = chunks[c].usedCap

\* C39: pushOOB(data, 0) returns nullptr and leaves the container as it
\* found it, whatever its state: the chunks (their memory, usedCap,
\* skipFirstHeader and links), the head, the tail, the last header and the
\* number of elements are unchanged, no chunk is allocated or released, no
\* element is destroyed and no assertion fails.
C39_ZeroSizeOOBIsNoOp ==
    (lastOp.op = "pushOOB" /\ lastOp.arg = 0) =>
        /\ lastOp.ret = nullptr
        /\ chunks = pre.chunks
        /\ nextChunk = pre.nextChunk /\ freed = pre.freed
        /\ m_head = pre.m_head /\ m_tail = pre.m_tail
        /\ m_lastHeader = pre.m_lastHeader
        /\ m_numElements = pre.m_numElements
        /\ destroyed = pre.destroyed /\ faults = pre.faults

\* pushOOB(data, 0) on a container whose tail has a last header and room
\* behind it, which a push of one byte would have used
C39_Witness ==
    /\ lastOp.op = "pushOOB" /\ lastOp.arg = 0
    /\ lastOp.ret = nullptr
    /\ m_lastHeader # nullptr
    /\ m_numElements > 0
    /\ chunks[m_tail].usedCap + AlignofT <= chunks[m_tail].cap

(* Moves *)

Moves == {"operator=", "PolyChunkVector(PolyChunkVector&&)"}

\* the chunks of the chain of the container the record s is seen from
chainOf(s) == Range(chain(s.chunks, s.m_head))

\* the last n entries of the log
lastOf(log, n) == SubSeq(log, Len(log) - n + 1, Len(log))

\* C40: after a move construction or a move assignment from another
\* container B, the destination has the head, tail, last header and element
\* count B had, and B's chunks are as they were, none released, with every
\* byte where it was; B is left with no head, no tail and no element, so that
\* its destruction releases and destroys nothing; and in the assignment the
\* elements the destination had were destroyed once each and its chunks
\* released, with no assertion failing, before the members were swapped.
C40_MoveTransfersChain ==
    lastOp.op \in Moves =>
        /\ members(lastOp.ret.moved) = members(lastOp.ret.other)
        /\ \A c \in chainOf(lastOp.ret.other) :
              /\ c \notin lastOp.ret.moved.freed
              /\ lastOp.ret.moved.chunks[c] = lastOp.ret.other.chunks[c]
        /\ lastOp.ret.left.m_head = NULL
        /\ lastOp.ret.left.m_tail = NULL
        /\ lastOp.ret.left.m_numElements = 0
        /\ Self = lastOp.ret.moved
        /\ \A k \in DOMAIN refs :
              /\ refs[k].c \in Range(chainNow)
              /\ hasObject(chunks[refs[k].c], refs[k].off)
              /\ chunks[refs[k].c].mem[refs[k].off].val = k
        /\ lastOp.op = "operator=" =>
              /\ Len(destroyed) = Len(pre.destroyed) + pre.m_numElements
              /\ SubSeq(destroyed, 1, Len(pre.destroyed)) = pre.destroyed
              /\ Cardinality(Range(lastOf(destroyed, pre.m_numElements))) = pre.m_numElements
              /\ chainOf(pre) \subseteq freed \ pre.freed
              /\ chainOf(pre) \cap chainOf(lastOp.ret.other) = {}
              /\ faults = pre.faults
        /\ lastOp.op # "operator=" =>
              /\ destroyed = pre.destroyed /\ freed = pre.freed
              /\ faults = pre.faults

\* a container of two elements in two chunks assigned a container of one
\* element
C40_Witness ==
    /\ lastOp.op = "operator=" /\ lastOp.arg = "emplace_back"
    /\ pre.m_numElements >= 2
    /\ Len(chainBefore) >= 2
    /\ m_numElements = 1
    /\ m_tail # NULL

\* a container of two chunks, with elements and OOB bytes, moved into a new
\* container
C40_WitnessConstructed ==
    /\ lastOp.op = "PolyChunkVector(PolyChunkVector&&)"
    /\ m_numElements >= 1
    /\ Len(chainNow) >= 2
    /\ m_lastHeader # nullptr

====
